---------------------------- MODULE Spec2Model ----------------------------
(***************************************************************************)
(* A model of the company-enrichment engine of local-enrichment-tool:      *)
(* CompanyEnrichmentEngine.enrichCompany / enrichBatch, the headcount      *)
(* estimator LinkedInHeadcountFetcher and the POST /api/enrich caller.     *)
(*                                                                         *)
(* Conventions                                                             *)
(*   - a JavaScript `undefined` number is the value `undefined` (-1);      *)
(*     an `undefined` string is the string "undefined"; a JavaScript       *)
(*     `null` object is NullObj.  Truthiness follows JavaScript: 0, "",    *)
(*     undefined and null are falsy.                                       *)
(*   - an HTTP response is its status code; 0 stands for a network error   *)
(*     or a timeout (fetch rejects).                                       *)
(*   - every `await` of enrichCompany ends one action of a task, so the    *)
(*     tasks of one batch interleave exactly at the awaits.                *)
(***************************************************************************)
EXTENDS Integers, Sequences, FiniteSets, TLC

(***************************************************************************)
(* Bounds of the model                                                     *)
(***************************************************************************)
\* largest batch POST /api/enrich is driven with
MaxBatch == 2
\* employee figures 0..MaxEmployees appear on the scraped profile page
MaxEmployees == 6
\* people-search result counts 0..MaxSearchCount
MaxSearchCount == 4

(***************************************************************************)
(* JavaScript values                                                       *)
(***************************************************************************)
undefined == 0 - 1
NoMatch == 0 - 2
NullObj == [isNull |-> TRUE]

TruthyNum(n) == n # undefined /\ n # 0
TruthyStr(s) == s # "undefined" /\ s # ""

\* Math.min
Min(a, b) == IF a < b THEN a ELSE b

\* the largest power of two that is at most n (n >= 1)
RECURSIVE Pow2Floor(_)
Pow2Floor(n) == IF n < 2 THEN 1 ELSE 2 * Pow2Floor(n \div 2)

\* Math.floor(t * 0.4) in IEEE-754 double arithmetic: the double 0.4 lies
\* above 2/5, so the product never falls below an exact integer
Floor40(t) == (2 * t) \div 5

\* Math.floor(t * 0.35) in IEEE-754 double arithmetic: the double 0.35 is
\* 0.35 - 2^-51/20, so for t = 20m the product is 7m - m*2^-51, which rounds
\* below 7m when m*2^-51 exceeds half an ulp of 7m
Floor35(t) ==
  IF t % 20 = 0 /\ t > 0 /\ 4 * (t \div 20) > Pow2Floor(7 * (t \div 20))
  THEN (7 * t) \div 20 - 1
  ELSE (7 * t) \div 20

(***************************************************************************)
(* LinkedInHeadcountFetcher                                                *)
(***************************************************************************)
\* the sanity check of scrapeCompanyPage on a parsed count
SaneEmployeeCount(count) == count > 0 /\ count < 1000000

\* the digits the pattern /(\d{1,3}(?:,\d{3})*)\s+(?:employees|associates)/
\* captures from "<n> employees": the whole figure when it is written with
\* thousands separators or has at most three digits, its last three digits
\* otherwise (the leftmost match starts three digits before the blank)
CommaPatternMatch(page) ==
  IF page.kind = "none" THEN NoMatch
  ELSE IF page.commas \/ page.b < 1000 THEN page.b ELSE page.b % 1000

\* the digits /(\d+)\s+(?:employees|associates)/ captures: the digit run that
\* ends at the blank, i.e. the last group of a figure written with separators
DigitPatternMatch(page) ==
  IF page.kind = "none" THEN NoMatch
  ELSE IF page.commas /\ page.b >= 1000 THEN page.b % 1000 ELSE page.b

\* /"followerCount"\s*:\s*(\d+)/
FollowerPatternMatch(page) == page.followers

\* scrapeCompanyPage: totalEmployees, or undefined
scrapeCompanyPage(page) ==
  IF page.status # 200 THEN undefined
  ELSE LET p1 == CommaPatternMatch(page)
           p2 == DigitPatternMatch(page)
           p3 == FollowerPatternMatch(page)
       IN IF p1 # NoMatch /\ SaneEmployeeCount(p1) THEN p1
          ELSE IF p2 # NoMatch /\ SaneEmployeeCount(p2) THEN p2
          ELSE IF p3 # NoMatch /\ SaneEmployeeCount(p3) THEN p3
          ELSE IF page.kind = "range" THEN (page.a + page.b) \div 2
          ELSE undefined

\* the loop over engineeringKeywords: the maximum of the search counts
RECURSIVE MaxEngineerCount(_)
MaxEngineerCount(counts) ==
  IF counts = << >> THEN 0
  ELSE LET rest == MaxEngineerCount(Tail(counts))
       IN IF Head(counts) >= rest THEN Head(counts) ELSE rest

\* the estimator without its clamp
ClampNever(total, maxEngineerCount) == FALSE

\* the clamp of estimateEngineeringCount
ClampApplies(total, maxEngineerCount) ==
  TruthyNum(total) /\ maxEngineerCount > total

RawEngineeringCount(total, maxEngineerCount) ==
  IF maxEngineerCount > 0
  THEN IF ClampApplies(total, maxEngineerCount) THEN Floor40(total)
       ELSE maxEngineerCount
  ELSE IF TruthyNum(total) THEN Floor35(total) ELSE maxEngineerCount

\* the confidence without the reset to 'low' in the clamp
HeadcountConfidenceOfCountOnly(total, maxEngineerCount) ==
  IF maxEngineerCount > 10 THEN "medium" ELSE "low"

HeadcountConfidence(total, maxEngineerCount) ==
  IF maxEngineerCount > 0
  THEN IF ClampApplies(total, maxEngineerCount) THEN "low"
       ELSE IF maxEngineerCount > 10 THEN "medium" ELSE "low"
  ELSE "low"

\* what estimateEngineeringCount returns
ReturnedEngineeringCount(engineeringCount) ==
  IF engineeringCount > 0 THEN engineeringCount ELSE undefined

estimateEngineeringCount(page, counts) ==
  LET total == scrapeCompanyPage(page)
      maxEngineerCount == MaxEngineerCount(counts)
  IN [isNull |-> FALSE,
      totalEmployees |-> total,
      engineeringCount |->
        ReturnedEngineeringCount(RawEngineeringCount(total, maxEngineerCount)),
      confidence |-> HeadcountConfidence(total, maxEngineerCount)]

estimateFromJobPostings(engineeringJobCount) ==
  IF engineeringJobCount = 0 THEN 0 ELSE engineeringJobCount * 5

\* estimateFromGitHub: Math.floor(activeContributors / 0.7); the orchestrator
\* only ever passes a positive count
estimateFromGitHub(activeContributors) ==
  IF activeContributors = 0 THEN 0 ELSE (10 * activeContributors) \div 7

\* an estimate is <<value, weight in tenths>>
RECURSIVE WeightedSum(_)
WeightedSum(estimates) ==
  IF estimates = << >> THEN 0
  ELSE Head(estimates)[1] * Head(estimates)[2] + WeightedSum(Tail(estimates))

RECURSIVE TotalWeight(_)
TotalWeight(estimates) ==
  IF estimates = << >> THEN 0
  ELSE Head(estimates)[2] + TotalWeight(Tail(estimates))

\* the inputs, among the estimate lists the orchestrator builds with values
\* up to 100, on which the double quotient weightedSum / totalWeight falls
\* just below the exact integer quotient (0.3 is not a double)
CombineSlipCases ==
  { << <<36, 3>>, <<15, 4>> >>, << <<41, 3>>, <<20, 4>> >>,
    << <<57, 3>>, <<50, 4>> >>, << <<62, 3>>, <<55, 4>> >>,
    << <<67, 3>>, <<60, 4>> >>, << <<72, 3>>, <<30, 4>> >>,
    << <<77, 3>>, <<35, 4>> >>, << <<82, 3>>, <<40, 4>> >>,
    << <<87, 3>>, <<45, 4>> >>, << <<92, 3>>, <<15, 4>> >>,
    << <<97, 3>>, <<20, 4>> >> }

\* the same for a direct call: every list of one or two estimates with
\* values 31, 50, 100 and confidences 0.3, 0.4, 0.5, 0.8 on which the double
\* quotient falls below the exact one (31 * 0.3 / 0.3 = 30.999999999999996)
DirectSlipCases ==
  {
    << <<31, 3>> >>, << <<31, 3>>, <<31, 3>> >>,
    << <<31, 3>>, <<31, 5>> >>, << <<31, 4>>, <<31, 5>> >>,
    << <<31, 4>>, <<31, 8>> >>, << <<31, 5>>, <<31, 3>> >>,
    << <<31, 5>>, <<31, 4>> >>, << <<31, 5>>, <<31, 8>> >>,
    << <<31, 8>>, <<31, 4>> >>, << <<31, 8>>, <<31, 5>> >>,
    << <<31, 8>>, <<100, 4>> >>, << <<50, 3>>, <<50, 8>> >>,
    << <<50, 4>>, <<50, 8>> >>, << <<50, 8>>, <<50, 3>> >>,
    << <<50, 8>>, <<50, 4>> >>, << <<100, 4>>, <<31, 8>> >>,
    << <<100, 3>>, <<100, 8>> >>, << <<100, 4>>, <<100, 8>> >>,
    << <<100, 8>>, <<100, 3>> >>, << <<100, 8>>, <<100, 4>> >> }

combineEstimates(estimates) ==
  IF estimates = << >> THEN 0
  ELSE WeightedSum(estimates) \div TotalWeight(estimates)
       - (IF estimates \in CombineSlipCases \cup DirectSlipCases THEN 1 ELSE 0)

(***************************************************************************)
(* HTTP                                                                    *)
(***************************************************************************)
\* Response.ok
Ok(status) == status >= 200 /\ status <= 299

\* a GET answered 403 counts as well
verifyUrlExistsAccepting403(head, get) ==
  IF head = 0 THEN FALSE
  ELSE IF Ok(head) \/ head = 999 THEN TRUE
  ELSE IF head = 405 \/ head = 403
       THEN (IF get = 0 THEN FALSE ELSE Ok(get) \/ get = 403)
  ELSE FALSE

\* verifyUrlExists, given the status of the HEAD request and of the GET
\* request (read only after a 405 or 403 HEAD)
verifyUrlExists(head, get) ==
  IF head = 0 THEN FALSE
  ELSE IF Ok(head) \/ head = 999 THEN TRUE
  ELSE IF head = 405 \/ head = 403
       THEN (IF get = 0 THEN FALSE ELSE Ok(get))
  ELSE FALSE

\* whether verifyUrlExists issues the GET request
VerifyIssuesGet(head) == head = 405 \/ head = 403

(***************************************************************************)
(* The environment one enrichment reads: bounded sets of responses         *)
(***************************************************************************)
\* what the parsers of extractSocialLinks, TechDetector and MobileAppDetector
\* find in a page: whether the cleaned text is non-empty, the number of
\* signatures and of distinct apps, the first link of each network
EmptyHtml ==
  [empty |-> TRUE, text |-> FALSE, techSigs |-> 0, apps |-> 0,
   twitter |-> "undefined", linkedin |-> "undefined", github |-> "undefined"]

TextOnlyHtml ==
  [empty |-> FALSE, text |-> TRUE, techSigs |-> 0, apps |-> 0,
   twitter |-> "undefined", linkedin |-> "undefined", github |-> "undefined"]

ScriptOnlyHtml ==
  [empty |-> FALSE, text |-> FALSE, techSigs |-> 1, apps |-> 0,
   twitter |-> "undefined", linkedin |-> "undefined",
   github |-> "https://github.com/acme"]

RichHtml ==
  [empty |-> FALSE, text |-> TRUE, techSigs |-> 2, apps |-> 1,
   twitter |-> "https://x.com/acme",
   linkedin |-> "https://linkedin.com/company/acme",
   github |-> "undefined"]

Htmls == {EmptyHtml, TextOnlyHtml, ScriptOnlyHtml, RichHtml}

\* the response to the website fetch
WebsiteResponses ==
  {[status |-> 0, html |-> EmptyHtml], [status |-> 503, html |-> TextOnlyHtml]}
  \cup {[status |-> 200, html |-> h] : h \in Htmls}

\* <<HEAD status, GET status>> of one link verification
ProbePairs ==
  {<<200, 0>>, <<999, 0>>, <<404, 0>>, <<0, 0>>, <<403, 200>>, <<405, 404>>}

\* the profile pages the headcount estimator scrapes during an enrichment
NoPage ==
  [status |-> 0, kind |-> "none", a |-> 0, b |-> 0, commas |-> FALSE,
   followers |-> NoMatch]

CountPage(n) ==
  [status |-> 200, kind |-> "count", a |-> 0, b |-> n, commas |-> FALSE,
   followers |-> NoMatch]

RangePage(lo, hi) ==
  [status |-> 200, kind |-> "range", a |-> lo, b |-> hi, commas |-> FALSE,
   followers |-> NoMatch]

\* the profile pages an enrichment meets: unreachable, a plain figure, and
\* the range "0-0 employees"
EnrichmentPages == {NoPage, CountPage(3), RangePage(0, 0)}

\* the five people-search counts of one enrichment
EnrichmentSearchCounts ==
  {<<0, 0, 0, 0, 0>>, <<0, 2, 0, 1, 0>>, <<12, 0, 3, 0, 0>>}

\* what scrapeJobs collects: the number of postings, how many of them are
\* engineering postings, and whether every department is a string (an Ashby
\* posting carries whatever JSON value the board publishes)
JobBoards ==
  {[n |-> 0, engineering |-> 0, wellTyped |-> TRUE],
   [n |-> 1, engineering |-> 0, wellTyped |-> TRUE],
   [n |-> 3, engineering |-> 2, wellTyped |-> TRUE],
   [n |-> 12, engineering |-> 3, wellTyped |-> TRUE],
   [n |-> 1, engineering |-> 0, wellTyped |-> FALSE]}

\* generateObject of extractWithAI: it throws (API failure, or an answer that
\* violates the schema), or returns an object of the schema
AIObject(employeeCount, totalFundingRaised, city, founded, latestRoundType, ceoName, openPositions, links) ==
  [name |-> "Acme", domain |-> "acme.com",
   employeeCount |-> employeeCount, totalFundingRaised |-> totalFundingRaised,
   headquarters |-> [city |-> city], founded |-> founded,
   latestRoundType |-> latestRoundType, ceoName |-> ceoName,
   openPositions |-> openPositions,
   linkedinUrl |-> IF links THEN "https://linkedin.com/company/ai-guess"
                   ELSE "undefined",
   twitterUrl |-> IF links THEN "https://x.com/ai-guess" ELSE "undefined"]

MinimalObject ==
  AIObject(undefined, "undefined", "undefined", undefined, "undefined",
           "undefined", undefined, FALSE)

AIObjects ==
  {MinimalObject,
   AIObject(50, "undefined", "undefined", undefined, "undefined", "undefined",
            undefined, FALSE),
   AIObject(0, "", "", 0, "", "", 0, FALSE),
   AIObject(undefined, "$10M", "undefined", undefined, "Series A",
            "undefined", undefined, FALSE),
   AIObject(undefined, "undefined", "Berlin", 2015, "undefined",
            "undefined", undefined, FALSE),
   AIObject(undefined, "undefined", "undefined", undefined, "undefined",
            "Ada", 7, TRUE),
   AIObject(50, "$10M", "Berlin", 2015, "Series A", "Ada", 7, TRUE)}

\* a thrown JavaScript Error
Error(message) == [message |-> message]

AIAnswers ==
  {[throws |-> TRUE, error |-> Error("No object generated"),
    object |-> MinimalObject]}
  \cup {[throws |-> FALSE, error |-> Error(""), object |-> o] : o \in AIObjects}

(***************************************************************************)
(* CompanyEnrichmentEngine: the pure parts                                 *)
(***************************************************************************)
\* fetchWebsite: {text, html}
fetchWebsite(response) ==
  IF response.status = 0 \/ ~Ok(response.status)
  THEN [text |-> "", html |-> EmptyHtml]
  ELSE [text |-> IF response.html.text THEN "website text" ELSE "",
        html |-> response.html]

\* searchCrunchbase without the response.ok test
searchCrunchbaseAnyStatus(status) == "crunchbase page"

\* searchCrunchbase: the page text, or ''
searchCrunchbase(status) ==
  IF status # 0 /\ Ok(status) THEN "crunchbase page" ELSE ""

\* fetchLinkedInData: a placeholder that returns ''
fetchLinkedInData == ""

\* the weight enrichCompany gives the LinkedIn estimate, in tenths
LinkedInWeight(confidence) ==
  IF confidence = "high" THEN 8 ELSE IF confidence = "medium" THEN 5 ELSE 3

\* the estimates list enrichCompany builds when hiringData and githubData exist
HeadcountEstimates(headcountData, hiringData, githubData) ==
  LET jobEstimate ==
        estimateFromJobPostings(hiringData.departmentHiring.engineering)
      githubContributors == githubData.contributorsLast30Days
  IN (IF TruthyNum(headcountData.engineeringCount)
      THEN << <<headcountData.engineeringCount,
                LinkedInWeight(headcountData.confidence)>> >>
      ELSE << >>)
     \o (IF jobEstimate > 0 THEN << <<jobEstimate, 4>> >> ELSE << >>)
     \o (IF githubContributors > 0
         THEN << <<estimateFromGitHub(githubContributors), 5>> >>
         ELSE << >>)

\* headcountData after the "enhance with estimates from other sources" block
EnhanceHeadcount(headcountData, hiringData, githubData) ==
  IF hiringData.isNull \/ githubData.isNull THEN headcountData
  ELSE LET estimates == HeadcountEstimates(headcountData, hiringData, githubData)
       IN IF Len(estimates) > 1
          THEN [headcountData EXCEPT !.engineeringCount = combineEstimates(estimates)]
          ELSE headcountData

\* a || b on optional numbers
OrNum(a, b) == IF TruthyNum(a) THEN a ELSE b

\* the record extractWithAI assembles from the AI object and the
\* deterministic data
AssembleRecord(object, sources, githubData, hiringData, techStack, socialLinks, mobileAppData, headcountData) ==
  [name |-> object.name,
   domain |-> object.domain,
   founded |-> object.founded,
   employeeCount |->
     IF headcountData.isNull THEN object.employeeCount
     ELSE OrNum(headcountData.totalEmployees, object.employeeCount),
   engineeringCount |->
     IF headcountData.isNull THEN undefined ELSE headcountData.engineeringCount,
   headquarters |-> object.headquarters,
   totalFundingRaised |-> object.totalFundingRaised,
   openPositions |->
     IF hiringData.isNull THEN object.openPositions ELSE hiringData.openPositions,
   linkedinUrl |-> socialLinks.linkedin,
   twitterUrl |-> socialLinks.twitter,
   githubUrl |->
     IF githubData.isNull THEN socialLinks.github ELSE githubData.organization.url,
   dataQuality |->
     IF Len(sources) >= 2 THEN "high"
     ELSE IF Len(sources) = 1 THEN "medium" ELSE "low",
   sources |-> sources,
   latestFundingRound |->
     IF TruthyStr(object.latestRoundType)
     THEN [isNull |-> FALSE, roundType |-> object.latestRoundType]
     ELSE NullObj,
   ceo |->
     IF TruthyStr(object.ceoName)
     THEN [isNull |-> FALSE, name |-> object.ceoName] ELSE NullObj,
   hiring |->
     IF hiringData.isNull THEN NullObj
     ELSE [isNull |-> FALSE,
           openPositions |-> hiringData.openPositions,
           jobListings |-> Min(hiringData.jobListings, 10),
           departmentHiring |-> hiringData.departmentHiring,
           topSkillsHiring |-> hiringData.topSkillsHiring],
   technographic |->
     IF techStack.isNull THEN NullObj
     ELSE [isNull |-> FALSE,
           allTechnologies |-> Min(techStack.allTechnologies, 30)],
   mobileApps |->
     IF mobileAppData.isNull THEN NullObj
     ELSE [isNull |-> FALSE, allApps |-> mobileAppData.allApps]]

\* calculateConfidence without the final Math.min
calculateConfidenceUncapped(data, sources) ==
  Len(sources) * 20
  + (IF TruthyNum(data.employeeCount) THEN 10 ELSE 0)
  + (IF TruthyStr(data.totalFundingRaised) THEN 10 ELSE 0)
  + (IF TruthyStr(data.headquarters.city) THEN 5 ELSE 0)
  + (IF TruthyNum(data.founded) THEN 5 ELSE 0)
  + (IF ~data.latestFundingRound.isNull THEN 10 ELSE 0)
  + (IF ~data.ceo.isNull THEN 5 ELSE 0)

\* calculateConfidence
calculateConfidence(data, sources) ==
  LET score == Len(sources) * 20
               + (IF TruthyNum(data.employeeCount) THEN 10 ELSE 0)
               + (IF TruthyStr(data.totalFundingRaised) THEN 10 ELSE 0)
               + (IF TruthyStr(data.headquarters.city) THEN 5 ELSE 0)
               + (IF TruthyNum(data.founded) THEN 5 ELSE 0)
               + (IF ~data.latestFundingRound.isNull THEN 10 ELSE 0)
               + (IF ~data.ceo.isNull THEN 5 ELSE 0)
  IN Min(score, 100)

\* a catch block that drops the message
ErrorMessageDropped(error) == "Unknown error"

\* error instanceof Error ? error.message : 'Unknown error'
ErrorMessage(error) ==
  IF "message" \in DOMAIN error THEN error.message ELSE "Unknown error"

\* a settled promise
Pending == [state |-> "pending"]
Fulfilled(value) == [state |-> "fulfilled", value |-> value]
Rejected(reason) == [state |-> "rejected", reason |-> reason]

\* a return that also fills the error field
enrichCompanyReturnWithError(enrichedData, sources) ==
  Fulfilled([success |-> TRUE, data |-> enrichedData, error |-> "",
             confidence |-> 0])

\* the return of the try block of enrichCompany
enrichCompanyReturn(enrichedData, sources) ==
  Fulfilled([success |-> TRUE, data |-> enrichedData,
             confidence |-> calculateConfidence(enrichedData, sources)])

\* a catch block that rethrows
enrichCompanyRethrow(error) == Rejected(error)

\* the catch block of enrichCompany
enrichCompanyCatch(error) ==
  Fulfilled([success |-> FALSE, error |-> ErrorMessage(error), confidence |-> 0])

(***************************************************************************)
(* State                                                                   *)
(***************************************************************************)
VARIABLES
  caller,     \* who called the engine, and with what
  task,       \* the enrichCompany invocations of the current call
  results,    \* the promise of each invocation, in the order of the inputs
  batch,      \* the promise the caller awaits
  response,   \* the HTTP response of POST /api/enrich
  hc,         \* a direct call of estimateEngineeringCount
  scraper,    \* a JobScraper working on the postings it collected
  detector,   \* a MobileAppDetector working on a page
  electron,   \* the Electron main process and the server it spawns
  prober,     \* a direct call of findDomainFromName or verifyUrlExists
  fetcher     \* a GitHubFetcher working on an organisation

vars ==
  <<caller, task, results, batch, response, hc, scraper, detector, electron,
    prober, fetcher>>

\* the variables of the enrichment engine and of its HTTP caller
engine == <<caller, task, results, batch, response>>
\* the components that are exercised on their own
components == <<hc, scraper, detector, electron, prober, fetcher>>

Tasks == 1..Len(task)

\* a call of enrichBatch works on a bounded slice of the environment
InBatch == Len(task) > 1

(***************************************************************************)
(* Inputs                                                                  *)
(***************************************************************************)
Input(domain, companyName, linkedinUrl) ==
  [domain |-> domain, companyName |-> companyName, linkedinUrl |-> linkedinUrl]

Inputs ==
  {Input(d, n, l) : d \in {"undefined", "acme.com"}, n \in {"undefined", "Acme"},
                    l \in {"undefined", "https://linkedin.com/company/acme"}}

\* the strings a client posts as domains
PostedDomains == {"acme.com", " beta.io", " "}

\* String.prototype.trim on the posted strings
Trim(d) ==
  IF d = " beta.io" THEN "beta.io" ELSE IF d = " " THEN "" ELSE d

\* domain.split('.')[0], and the lower-cased company name without blanks
FirstLabel(domain) ==
  IF domain = "beta.io" THEN "beta"
  ELSE IF domain \in {"acme.com", "acme.ai"} THEN "acme" ELSE domain

Slug(companyName) == IF companyName = "Acme" THEN "acme" ELSE companyName

SeqsUpTo(S, n) == UNION {[1..k -> S] : k \in 0..n}

(***************************************************************************)
(* One invocation of enrichCompany                                         *)
(***************************************************************************)
Steps ==
  <<"findDomainFromName", "fetchWebsite", "fetchLinkedInData",
    "searchCrunchbase", "findOrgFromDomain", "fetchOrgData", "scrapeJobs",
    "detectTechStack", "detectMobileApps", "extractSocialLinks",
    "estimateEngineeringCount", "extractWithAI">>

\* the condition under which enrichCompany awaits the k-th call
Awaits(t, k) ==
  CASE Steps[k] = "findDomainFromName" ->
         ~TruthyStr(t.input.domain) /\ TruthyStr(t.input.companyName)
    [] Steps[k] = "fetchWebsite" -> TruthyStr(t.input.domain)
    [] Steps[k] = "fetchLinkedInData" ->
         TruthyStr(t.input.linkedinUrl) \/ TruthyStr(t.input.companyName)
    [] Steps[k] = "searchCrunchbase" ->
         TruthyStr(t.input.companyName) \/ TruthyStr(t.input.domain)
    [] Steps[k] = "findOrgFromDomain" -> TruthyStr(t.input.domain)
    [] Steps[k] = "fetchOrgData" -> TruthyStr(t.githubOrg)
    [] Steps[k] = "scrapeJobs" -> TruthyStr(t.input.domain)
    [] Steps[k] = "detectTechStack" ->
         TruthyStr(t.input.domain) /\ ~t.websiteHTML.empty
    [] Steps[k] = "detectMobileApps" ->
         ~t.websiteHTML.empty /\ TruthyStr(t.input.domain)
    [] Steps[k] = "extractSocialLinks" -> TRUE
    [] Steps[k] = "estimateEngineeringCount" -> TruthyStr(t.input.companyName)
    [] Steps[k] = "extractWithAI" -> TRUE

\* the structuring call is reached without the headcount step
RECURSIVE NextAwaitWithoutHeadcount(_, _)
NextAwaitWithoutHeadcount(t, k) ==
  IF k > Len(Steps) THEN "done"
  ELSE IF Awaits(t, k) /\ Steps[k] # "estimateEngineeringCount" THEN Steps[k]
  ELSE NextAwaitWithoutHeadcount(t, k + 1)

\* the next call enrichCompany awaits, from the k-th on
RECURSIVE NextAwait(_, _)
NextAwait(t, k) ==
  IF k > Len(Steps) THEN "done"
  ELSE IF Awaits(t, k) THEN Steps[k] ELSE NextAwait(t, k + 1)

StepIndex(name) == CHOOSE k \in 1..Len(Steps) : Steps[k] = name

\* enrichCompany runs on from the call named `after`
Resume(t, after) ==
  [t EXCEPT !.pc = NextAwait(t, StepIndex(after) + 1),
            !.awaited = @ \cup {after}]

\* the locals of enrichCompany at its first await
enrichCompany(input) ==
  LET t == [pc |-> "start", input |-> input, sources |-> << >>,
            websiteContent |-> "", websiteHTML |-> EmptyHtml,
            linkedinContent |-> "", crunchbaseData |-> "",
            githubOrg |-> "undefined", githubData |-> NullObj,
            hiringData |-> NullObj, techStack |-> NullObj,
            mobileAppData |-> NullObj,
            socialLinks |-> [twitter |-> "undefined", linkedin |-> "undefined",
                             github |-> "undefined"],
            headcountData |-> NullObj,
            \* history: HTTP requests issued, structuring calls issued, URLs
            \* verifyUrlExists accepted, components that returned data, the
            \* exception that reached the catch block, the object the
            \* structuring call returned
            http |-> FALSE, aiCalls |-> 0, verified |-> {}, returned |-> {},
            \* and how many promises of the call had settled before this one
            threw |-> FALSE, thrown |-> Error(""), answer |-> MinimalObject,
            settledBefore |-> 0,
            \* and what estimateEngineeringCount returned, before the fusion
            linkedinEstimate |-> NullObj,
            \* and the requests a component issued a second time
            repeated |-> {},
            \* and the calls that were awaited and have completed
            awaited |-> {}]
  IN [t EXCEPT !.pc = NextAwait(t, 1)]

\* a push that is not guarded
PushAlways(sources, cond, name) == Append(sources, name)

\* sources.push(name) when cond
Push(sources, cond, name) == IF cond THEN Append(sources, name) ELSE sources

(***************************************************************************)
(* findDomainFromName                                                      *)
(***************************************************************************)
\* the five name-derived candidates, in the order they are probed
CommonPatterns(companyName) ==
  <<"acme.com", "acme.io", "acme.ai", "acme.app", "acme.com">>

RECURSIVE FirstOk(_, _, _)
FirstOk(candidates, statuses, k) ==
  IF k > Len(candidates) THEN "undefined"
  ELSE IF statuses[k] # 0 /\ Ok(statuses[k]) THEN candidates[k]
  ELSE FirstOk(candidates, statuses, k + 1)

\* the candidates that are requested: all up to the first whose request
\* succeeds
Probed(candidates, statuses) ==
  LET ok == {k \in DOMAIN candidates : statuses[k] # 0 /\ Ok(statuses[k])}
  IN IF ok = {} THEN candidates
     ELSE SubSeq(candidates, 1, CHOOSE k \in ok : \A j \in ok : k <= j)

\* the requests of a list that repeat an earlier request of the list
Repeated(requests) ==
  {requests[k] : k \in {k \in DOMAIN requests :
                          \E j \in 1..(k - 1) : requests[j] = requests[k]}}

\* the requests findDomainFromName issues, as <<method, URL>>
DomainRequests(companyName, ai, head, get, patterns) ==
  LET proposed ==
        IF ai.throws \/ ~TruthyStr(ai.domain) THEN << >>
        ELSE IF head = 0 THEN << <<"HEAD", ai.domain>>, <<"GET", ai.domain>> >>
        ELSE << <<"HEAD", ai.domain>> >>
      accepted ==
        /\ ~ai.throws /\ TruthyStr(ai.domain)
        /\ \/ head # 0 /\ Ok(head)
           \/ head = 0 /\ get # 0 /\ (Ok(get) \/ get = 403)
      probed == Probed(CommonPatterns(companyName), patterns)
  IN IF ai.throws \/ accepted THEN proposed
     ELSE proposed \o [k \in DOMAIN probed |-> <<"HEAD", probed[k]>>]

\* the domain findDomainFromName returns ("undefined" for null), given the
\* answer of the AI, the HEAD and GET status of the proposed domain and the
\* HEAD status of each pattern
findDomainFromName(companyName, ai, head, get, patterns) ==
  IF ai.throws THEN "undefined"
  ELSE IF TruthyStr(ai.domain) /\ head # 0 /\ Ok(head) THEN ai.domain
  ELSE IF TruthyStr(ai.domain) /\ head = 0 /\ get # 0
          /\ (Ok(get) \/ get = 403) THEN ai.domain
  ELSE FirstOk(CommonPatterns(companyName), patterns, 1)

DomainAnswers ==
  {[throws |-> TRUE, domain |-> "undefined"],
   [throws |-> FALSE, domain |-> "undefined"],
   [throws |-> FALSE, domain |-> "acme.com"]}

PatternProbes ==
  {<<404, 404, 404, 404, 404>>, <<200, 404, 404, 404, 200>>,
   <<0, 404, 0, 404, 200>>}

(***************************************************************************)
(* GitHubFetcher                                                           *)
(***************************************************************************)
\* the three organisation handles findOrgFromDomain tries
PossibleOrgs(domain, companyName) ==
  <<Slug(companyName), Slug(companyName), FirstLabel(domain)>>

findOrgFromDomain(domain, companyName, statuses) ==
  FirstOk(PossibleOrgs(domain, companyName), statuses, 1)

\* the requests findOrgFromDomain issues: /orgs/<org> for each handle tried
OrgRequests(domain, companyName, statuses) ==
  LET probed == Probed(PossibleOrgs(domain, companyName), statuses)
  IN [k \in DOMAIN probed |-> <<"GET", "/orgs/", probed[k]>>]

OrgProbes == {<<404, 404, 404>>, <<200, 0, 0>>, <<0, 404, 200>>}

\* html_url of the organisation
OrgUrl(org) ==
  IF org = "beta" THEN "https://github.com/beta" ELSE "https://github.com/acme"

\* fetchOrgData: null when the organisation request fails or the repository
\* list cannot be read; contributorsLast30Days is the constant 0
fetchOrgData(org, orgStatus, reposReadable) ==
  IF orgStatus = 0 \/ ~Ok(orgStatus) \/ ~reposReadable THEN NullObj
  ELSE [isNull |-> FALSE, organization |-> [login |-> org, url |-> OrgUrl(org)],
        contributorsLast30Days |-> 0]

(***************************************************************************)
(* The environment of a task                                               *)
(***************************************************************************)
WebsiteResponsesOf ==
  IF InBatch THEN {[status |-> 0, html |-> EmptyHtml], [status |-> 200, html |-> RichHtml]}
  ELSE WebsiteResponses

CrunchbaseStatusesOf == IF InBatch THEN {404} ELSE {0, 404, 200}

OrgProbesOf == IF InBatch THEN {<<404, 404, 404>>} ELSE OrgProbes

JobBoardsOf ==
  IF InBatch THEN {[n |-> 0, engineering |-> 0, wellTyped |-> TRUE]} ELSE JobBoards

HeaderHitsOf == IF InBatch THEN {0} ELSE {0, 1}

ProbePairsOf(url) ==
  IF ~TruthyStr(url) THEN {<<0, 0>>}
  ELSE IF InBatch THEN {<<200, 0>>} ELSE ProbePairs

AIAnswersOf ==
  IF InBatch THEN {a \in AIAnswers : a.throws \/ a.object = MinimalObject}
  ELSE AIAnswers

(***************************************************************************)
(* The steps of enrichCompany                                              *)
(***************************************************************************)
\* task i goes on as t
Continue(i, t) ==
  /\ task' = [task EXCEPT ![i] = t]
  /\ UNCHANGED <<caller, results, batch, response, components>>

\* task i ends: its promise settles
Settle(i, t, promise) ==
  /\ task' = [task EXCEPT ![i] =
                [t EXCEPT !.pc = "done",
                          !.settledBefore =
                             Cardinality({j \in Tasks : results[j].state # "pending"})]]
  /\ results' = [results EXCEPT ![i] = promise]
  /\ UNCHANGED <<caller, batch, response, components>>

FindDomainFromName(i) ==
  /\ task[i].pc = "findDomainFromName"
  /\ \E ai \in DomainAnswers, head \in {0, 200, 403}, get \in {0, 200, 403},
        patterns \in PatternProbes :
       LET t == task[i]
           domain == findDomainFromName(t.input.companyName, ai, head, get, patterns)
           requests == DomainRequests(t.input.companyName, ai, head, get, patterns)
       IN Continue(i, Resume([t EXCEPT !.input.domain = domain,
                                       !.repeated = @ \cup Repeated(requests),
                                       !.http = @ \/ ~ai.throws],
                             "findDomainFromName"))

FetchWebsite(i) ==
  /\ task[i].pc = "fetchWebsite"
  /\ \E r \in WebsiteResponsesOf :
       LET t == task[i]
           websiteData == fetchWebsite(r)
       IN Continue(i, Resume(
            [t EXCEPT !.websiteContent = websiteData.text,
                      !.websiteHTML = websiteData.html,
                      !.sources = Push(@, TruthyStr(websiteData.text), "company_website"),
                      !.http = TRUE,
                      !.returned = IF r.status # 0 /\ Ok(r.status) /\ ~r.html.empty
                                   THEN @ \cup {"company_website"} ELSE @],
            "fetchWebsite"))

FetchLinkedInData(i) ==
  /\ task[i].pc = "fetchLinkedInData"
  /\ LET t == task[i]
     IN Continue(i, Resume(
          [t EXCEPT !.linkedinContent = fetchLinkedInData,
                    !.sources = Push(@, TruthyStr(fetchLinkedInData), "linkedin")],
          "fetchLinkedInData"))

SearchCrunchbase(i) ==
  /\ task[i].pc = "searchCrunchbase"
  /\ \E status \in CrunchbaseStatusesOf :
       LET t == task[i]
           crunchbaseData == searchCrunchbase(status)
       IN Continue(i, Resume(
            [t EXCEPT !.crunchbaseData = crunchbaseData,
                      !.sources = Push(@, TruthyStr(crunchbaseData), "crunchbase"),
                      !.http = TRUE,
                      !.returned = IF status # 0 /\ Ok(status)
                                   THEN @ \cup {"crunchbase"} ELSE @],
            "searchCrunchbase"))

\* const companyName = input.companyName || input.domain.split('.')[0]
NameOrLabel(input) ==
  IF TruthyStr(input.companyName) THEN input.companyName
  ELSE FirstLabel(input.domain)

FindOrgFromDomain(i) ==
  /\ task[i].pc = "findOrgFromDomain"
  /\ \E statuses \in OrgProbesOf :
       LET t == task[i]
           githubOrg == findOrgFromDomain(t.input.domain, NameOrLabel(t.input), statuses)
           requests == OrgRequests(t.input.domain, NameOrLabel(t.input), statuses)
       IN Continue(i, Resume([t EXCEPT !.githubOrg = githubOrg, !.http = TRUE,
                                       !.repeated = @ \cup Repeated(requests)],
                             "findOrgFromDomain"))

FetchOrgData(i) ==
  /\ task[i].pc = "fetchOrgData"
  /\ \E orgStatus \in {0, 200, 404}, reposReadable \in BOOLEAN :
       LET t == task[i]
           githubData == fetchOrgData(t.githubOrg, orgStatus, reposReadable)
       IN Continue(i, Resume(
            [t EXCEPT !.githubData = githubData,
                      !.sources = Push(@, ~githubData.isNull, "github"),
                      !.returned = IF orgStatus = 200 /\ reposReadable
                                   THEN @ \cup {"github"} ELSE @],
            "fetchOrgData"))

\* the HiringData scrapeJobs returns for the postings it collected
scrapeJobs(board) ==
  [isNull |-> FALSE, openPositions |-> board.n, jobListings |-> board.n,
   departmentHiring |-> [engineering |-> board.engineering],
   topSkillsHiring |-> "extractTopSkills"]

ScrapeJobs(i) ==
  /\ task[i].pc = "scrapeJobs"
  /\ \E board \in JobBoardsOf :
       LET t == [task[i] EXCEPT !.http = TRUE]
           hiringData == scrapeJobs(board)
           error == Error("job.department.toLowerCase is not a function")
       IN IF ~board.wellTyped
          \* job.department.toLowerCase() throws on a department that is no string
          THEN Settle(i, [t EXCEPT !.threw = TRUE, !.thrown = error],
                      enrichCompanyCatch(error))
          ELSE Continue(i, Resume(
                 [t EXCEPT !.hiringData = hiringData,
                           !.sources = Push(@, hiringData.openPositions > 0, "job_boards"),
                           !.returned = IF board.n > 0 THEN @ \cup {"job_boards"} ELSE @],
                 "scrapeJobs"))

\* detectTechStack: the signatures found in the HTML plus those the header
\* probe adds
detectTechStack(html, headerHits) ==
  [isNull |-> FALSE, allTechnologies |-> html.techSigs + headerHits]

DetectTechStack(i) ==
  /\ task[i].pc = "detectTechStack"
  /\ \E headerHits \in HeaderHitsOf :
       LET t == task[i]
           techStack == detectTechStack(t.websiteHTML, headerHits)
       IN Continue(i, Resume(
            [t EXCEPT !.techStack = techStack,
                      !.hiringData =
                         IF ~@.isNull /\ @.jobListings > 0
                         THEN [@ EXCEPT !.topSkillsHiring = "detectFromJobPostings"]
                         ELSE @,
                      !.sources = Push(@, techStack.allTechnologies > 0, "tech_detection"),
                      !.http = TRUE,
                      !.returned = IF t.websiteHTML.techSigs + headerHits > 0
                                   THEN @ \cup {"tech_detection"} ELSE @],
            "detectTechStack"))

detectMobileApps(html) == [isNull |-> FALSE, allApps |-> html.apps]

DetectMobileApps(i) ==
  /\ task[i].pc = "detectMobileApps"
  /\ LET t == task[i]
         mobileAppData == detectMobileApps(t.websiteHTML)
     IN Continue(i, Resume(
          [t EXCEPT !.mobileAppData = mobileAppData,
                    !.sources = Push(@, mobileAppData.allApps > 0, "mobile_app_detection"),
                    !.returned = IF t.websiteHTML.apps > 0
                                 THEN @ \cup {"mobile_app_detection"} ELSE @],
          "detectMobileApps"))

\* the link extractSocialLinks keeps for a candidate and its probe
VerifiedLink(url, probe) ==
  IF TruthyStr(url) /\ verifyUrlExists(probe[1], probe[2]) THEN url
  ELSE "undefined"

\* extractSocialLinks on the candidates the parsers found
extractSocialLinks(html, pt, pl, pg) ==
  [twitter |-> VerifiedLink(html.twitter, pt),
   linkedin |-> VerifiedLink(html.linkedin, pl),
   github |-> VerifiedLink(html.github, pg)]

ExtractSocialLinks(i) ==
  /\ task[i].pc = "extractSocialLinks"
  /\ LET t == task[i]
         html == t.websiteHTML
     IN \E pt \in ProbePairsOf(html.twitter), pl \in ProbePairsOf(html.linkedin),
           pg \in ProbePairsOf(html.github) :
          LET socialLinks == extractSocialLinks(html, pt, pl, pg)
          IN Continue(i, Resume(
               [t EXCEPT !.socialLinks = socialLinks,
                         !.http = @ \/ TruthyStr(html.twitter)
                                    \/ TruthyStr(html.linkedin)
                                    \/ TruthyStr(html.github),
                         !.verified =
                            {u \in {html.twitter} : TruthyStr(u) /\ verifyUrlExists(pt[1], pt[2])}
                            \cup {u \in {html.linkedin} : TruthyStr(u) /\ verifyUrlExists(pl[1], pl[2])}
                            \cup {u \in {html.github} : TruthyStr(u) /\ verifyUrlExists(pg[1], pg[2])}],
               "extractSocialLinks"))

EstimateEngineeringCount(i) ==
  /\ task[i].pc = "estimateEngineeringCount"
  /\ \E page \in EnrichmentPages, counts \in EnrichmentSearchCounts :
       LET t == task[i]
           estimate == estimateEngineeringCount(page, counts)
           headcountData == EnhanceHeadcount(estimate, t.hiringData, t.githubData)
       IN Continue(i, Resume(
            [t EXCEPT !.headcountData = headcountData,
                      !.linkedinEstimate = estimate,
                      !.sources = Push(@, TruthyNum(headcountData.engineeringCount)
                                          \/ TruthyNum(headcountData.totalEmployees),
                                       "linkedin_headcount"),
                      !.http = TRUE,
                      !.returned = IF estimate.engineeringCount # undefined
                                      \/ estimate.totalEmployees # undefined
                                   THEN @ \cup {"linkedin_headcount"} ELSE @],
            "estimateEngineeringCount"))

\* extractWithAI: the generateObject call, then the assembly of the record
ExtractWithAI(i) ==
  /\ task[i].pc = "extractWithAI"
  /\ \E answer \in AIAnswersOf :
       LET t == [task[i] EXCEPT !.aiCalls = @ + 1]
           enrichedData ==
             AssembleRecord(answer.object, t.sources, t.githubData, t.hiringData,
                            t.techStack, t.socialLinks, t.mobileAppData,
                            t.headcountData)
       IN IF answer.throws
          THEN Settle(i, [t EXCEPT !.threw = TRUE, !.thrown = answer.error],
                      enrichCompanyCatch(answer.error))
          ELSE Settle(i, [t EXCEPT !.answer = answer.object],
                      enrichCompanyReturn(enrichedData, t.sources))

(***************************************************************************)
(* The callers                                                             *)
(***************************************************************************)
Idle == [kind |-> "idle"]
NoResponse == [status |-> 0]

\* results collected last-first
PromiseAllValuesReversed(promises) ==
  [i \in 1..Len(promises) |-> promises[Len(promises) + 1 - i].value]

\* Promise.all over the promises of the tasks: the value of promise i is
\* element i of the result
PromiseAllValues(promises) == [i \in 1..Len(promises) |-> promises[i].value]

\* a direct call of enrichCompany (the CLI with one domain, or library use)
EnrichCompany ==
  /\ caller = Idle
  /\ \E input \in Inputs :
       /\ caller' = [kind |-> "enrichCompany"]
       /\ task' = <<enrichCompany(input)>>
       /\ results' = <<Pending>>
  /\ UNCHANGED <<batch, response, components>>

\* enrichBatch: inputs.map(input => this.enrichCompany(input))
enrichBatch(inputs) == [i \in 1..Len(inputs) |-> enrichCompany(inputs[i])]

\* POST /api/enrich
PostEnrich ==
  /\ caller = Idle
  /\ \E domains \in SeqsUpTo(PostedDomains, MaxBatch), apiKey \in BOOLEAN :
       /\ caller' = [kind |-> "POST /api/enrich", domains |-> domains]
       /\ \/ /\ Len(domains) = 0
             /\ response' = [status |-> 400, error |-> "No domains provided"]
             /\ UNCHANGED <<task, results, batch>>
          \/ /\ Len(domains) > 0 /\ ~apiKey
             /\ response' = [status |-> 500, error |-> "ANTHROPIC_API_KEY is not configured"]
             /\ UNCHANGED <<task, results, batch>>
          \/ /\ Len(domains) > 0 /\ apiKey
             /\ task' = enrichBatch([i \in 1..Len(domains) |->
                                       Input(Trim(domains[i]), "undefined", "undefined")])
             /\ results' = [i \in 1..Len(domains) |-> Pending]
             /\ batch' = Pending
             /\ UNCHANGED response
  /\ UNCHANGED components

\* the promise of Promise.all in enrichBatch settles: rejected with the first rejection,
\* else fulfilled once every promise is
PromiseAll ==
  /\ batch = Pending
  /\ Len(results) > 0
  /\ \/ \E i \in 1..Len(results) : results[i].state = "rejected"
     \/ \A i \in 1..Len(results) : results[i].state = "fulfilled"
  /\ batch' = IF \E i \in 1..Len(results) : results[i].state = "rejected"
              THEN Rejected(results[CHOOSE i \in 1..Len(results) :
                                      results[i].state = "rejected"].reason)
              ELSE Fulfilled(PromiseAllValues(results))
  /\ UNCHANGED <<caller, task, results, response, components>>

\* results.map((r, i) => ({domain: domains[i], success: r.success, ...}))
ResponseResults(domains, values) ==
  [i \in 1..Len(values) |->
     [domain |-> domains[i],
      success |-> values[i].success,
      confidence |-> values[i].confidence,
      error |-> IF "error" \in DOMAIN values[i] THEN values[i].error ELSE "undefined",
      data |-> IF "data" \in DOMAIN values[i] THEN values[i].data ELSE NullObj]]

\* the handler of POST /api/enrich goes on after `await engine.enrichBatch`:
\* it exports the successful records to Markdown and answers; an exception
\* (a rejected batch, a failed export) is answered with status 500
Respond ==
  /\ caller.kind = "POST /api/enrich"
  /\ response = NoResponse
  /\ batch.state # "pending"
  /\ \E exported \in BOOLEAN :
       response' =
         IF batch.state = "rejected"
         THEN [status |-> 500, error |-> ErrorMessage(batch.reason)]
         ELSE IF ~exported /\ \E i \in 1..Len(batch.value) : batch.value[i].success
         THEN [status |-> 500, error |-> "export failed"]
         ELSE [status |-> 200,
               results |-> ResponseResults(caller.domains, batch.value)]
  /\ UNCHANGED <<caller, task, results, batch, components>>

\* the main process before app.whenReady() resolves: mainWindow and
\* serverProcess are null, no child process is running
ElectronInit ==
  [pc |-> "launching", platform |-> "unknown",
   mainWindow |-> "null", serverProcess |-> "null",
   \* the child process, and the signals it was sent
   server |-> "none", signals |-> {},
   \* the BrowserWindows created so far and those still open
   created |-> 0, open |-> 0,
   \* whether waitOn resolved, whether it timed out, and whether a window was
   \* created while it had not resolved
   ready |-> FALSE, timedOut |-> FALSE, createdBeforeReady |-> FALSE]

Init ==
  /\ caller = Idle
  /\ task = << >>
  /\ results = << >>
  /\ batch = [state |-> "none"]
  /\ response = NoResponse
  /\ hc = [pc |-> "idle"]
  /\ scraper = [pc |-> "idle"]
  /\ detector = [pc |-> "idle"]
  /\ electron = ElectronInit
  /\ prober = [pc |-> "idle"]
  /\ fetcher = [pc |-> "idle"]

Next ==
  \/ EnrichCompany
  \/ PostEnrich
  \/ \E i \in Tasks : FindDomainFromName(i)
  \/ \E i \in Tasks : FetchWebsite(i)
  \/ \E i \in Tasks : FetchLinkedInData(i)
  \/ \E i \in Tasks : SearchCrunchbase(i)
  \/ \E i \in Tasks : FindOrgFromDomain(i)
  \/ \E i \in Tasks : FetchOrgData(i)
  \/ \E i \in Tasks : ScrapeJobs(i)
  \/ \E i \in Tasks : DetectTechStack(i)
  \/ \E i \in Tasks : DetectMobileApps(i)
  \/ \E i \in Tasks : ExtractSocialLinks(i)
  \/ \E i \in Tasks : EstimateEngineeringCount(i)
  \/ \E i \in Tasks : ExtractWithAI(i)
  \/ PromiseAll
  \/ Respond

Spec == Init /\ [][Next]_vars

(***************************************************************************)
(* LinkedInHeadcountFetcher called on its own                              *)
(***************************************************************************)
\* the profile pages: unreachable, "<n> employees" for every small n and for
\* 180 and 350, and the ranges "0-0 employees", "2-<MaxEmployees>
\* employees", "51-200 employees" and "201-500 employees"
HeadcountPages ==
  {NoPage} \cup {CountPage(n) : n \in 0..MaxEmployees}
  \cup {CountPage(180), CountPage(350)}
  \cup {RangePage(0, 0), RangePage(2, MaxEmployees),
        RangePage(51, 200), RangePage(201, 500)}

\* the result counts of the five keyword searches: every combination of
\* small counts, and counts around 10 and in the hundreds
SearchCounts ==
  [1..5 -> 0..MaxSearchCount]
  \cup {<<10, 0, 0, 0, 0>>, <<0, 11, 0, 0, 0>>, <<12, 0, 3, 0, 0>>,
        <<0, 0, 0, 0, 250>>}

\* estimateEngineeringCount is called: the page is scraped and the searches run
CallEstimateEngineeringCount ==
  /\ hc.pc = "idle"
  /\ \E page \in HeadcountPages, counts \in SearchCounts :
       hc' = [pc |-> "searched", page |-> page, counts |-> counts]
  /\ UNCHANGED <<engine, scraper, detector, electron, prober, fetcher>>

\* estimateEngineeringCount returns
ReturnEstimateEngineeringCount ==
  /\ hc.pc = "searched"
  /\ hc' = [pc |-> "returned", page |-> hc.page, counts |-> hc.counts,
            result |-> estimateEngineeringCount(hc.page, hc.counts)]
  /\ UNCHANGED <<engine, scraper, detector, electron, prober, fetcher>>

\* the estimate lists of a direct call of combineEstimates: up to two
\* estimates <<value, confidence in tenths>>
DirectEstimates == {31, 50, 100} \X {3, 4, 5, 8}

\* combineEstimates is called and returns
CombineEstimates ==
  /\ hc.pc = "idle"
  /\ \E estimates \in SeqsUpTo(DirectEstimates, 2) :
       hc' = [pc |-> "combined", estimates |-> estimates,
              result |-> combineEstimates(estimates)]
  /\ UNCHANGED <<engine, scraper, detector, electron, prober, fetcher>>

NextHeadcount ==
  \/ CallEstimateEngineeringCount
  \/ ReturnEstimateEngineeringCount
  \/ CombineEstimates

SpecHeadcount == Init /\ [][NextHeadcount]_vars

(***************************************************************************)
(* JobScraper called on its own                                            *)
(***************************************************************************)
\* A string whose characters matter is the sequence of its characters.
UpperCase ==
  {"A", "B", "C", "D", "E", "F", "G", "H", "I", "J", "K", "L", "M",
   "N", "O", "P", "Q", "R", "S", "T", "U", "V", "W", "X", "Y", "Z"}
LowerCaseOf ==
  [c \in UpperCase |->
     CASE c = "A" -> "a" [] c = "B" -> "b" [] c = "C" -> "c" [] c = "D" -> "d"
       [] c = "E" -> "e" [] c = "F" -> "f" [] c = "G" -> "g" [] c = "H" -> "h"
       [] c = "I" -> "i" [] c = "J" -> "j" [] c = "K" -> "k" [] c = "L" -> "l"
       [] c = "M" -> "m" [] c = "N" -> "n" [] c = "O" -> "o" [] c = "P" -> "p"
       [] c = "Q" -> "q" [] c = "R" -> "r" [] c = "S" -> "s" [] c = "T" -> "t"
       [] c = "U" -> "u" [] c = "V" -> "v" [] c = "W" -> "w" [] c = "X" -> "x"
       [] c = "Y" -> "y" [] c = "Z" -> "z"]

\* String.prototype.toLowerCase
toLowerCase(s) ==
  [k \in 1..Len(s) |-> IF s[k] \in UpperCase THEN LowerCaseOf[s[k]] ELSE s[k]]

\* String.prototype.includes
includes(s, sub) ==
  \E k \in 0..(Len(s) - Len(sub)) : SubSeq(s, k + 1, k + Len(sub)) = sub

\* the branch the if-chain of scrapeJobs takes for dept
DepartmentTest(dept) ==
  IF includes(dept, <<"e", "n", "g", "i", "n", "e", "e", "r">>)
     \/ includes(dept, <<"t", "e", "c", "h", "n", "i", "c", "a", "l">>)
     \/ includes(dept, <<"d", "e", "v", "e", "l", "o", "p", "e", "r">>)
  THEN "engineering"
  ELSE IF includes(dept, <<"s", "a", "l", "e", "s">>)
          \/ includes(dept, <<"a", "c", "c", "o", "u", "n", "t">>)
  THEN "sales"
  ELSE IF includes(dept, <<"m", "a", "r", "k", "e", "t", "i", "n", "g">>)
          \/ includes(dept, <<"g", "r", "o", "w", "t", "h">>)
  THEN "marketing"
  ELSE IF includes(dept, <<"c", "u", "s", "t", "o", "m", "e", "r">>)
          \/ includes(dept, <<"s", "u", "p", "p", "o", "r", "t">>)
          \/ includes(dept, <<"s", "u", "c", "c", "e", "s", "s">>)
  THEN "customerSuccess"
  ELSE IF includes(dept, <<"o", "p", "e", "r", "a", "t", "i", "o", "n", "s">>)
          \/ includes(dept, <<"o", "p", "s">>)
          \/ includes(dept, <<"f", "i", "n", "a", "n", "c", "e">>)
  THEN "operations"
  ELSE "other"

\* the department test without toLowerCase
DepartmentOfExactCase(department) == DepartmentTest(department)

\* the bucket scrapeJobs increments for a posting's department
DepartmentOf(department) == DepartmentTest(toLowerCase(department))

Departments ==
  {"engineering", "sales", "marketing", "customerSuccess", "operations", "other"}

\* the department breakdown: each posting increments the counter of its branch
departmentHiring(jobListings) ==
  [d \in Departments |->
     Cardinality({k \in 1..Len(jobListings) :
                    DepartmentOf(jobListings[k].department) = d})]

\* the catalog of extractTopSkills
techSkills ==
  <<<<"R", "e", "a", "c", "t">>,
    <<"V", "u", "e">>,
    <<"A", "n", "g", "u", "l", "a", "r">>,
    <<"N", "o", "d", "e", ".", "j", "s">>,
    <<"P", "y", "t", "h", "o", "n">>,
    <<"G", "o">>,
    <<"R", "u", "s", "t">>,
    <<"T", "y", "p", "e", "S", "c", "r", "i", "p", "t">>,
    <<"J", "a", "v", "a", "S", "c", "r", "i", "p", "t">>,
    <<"J", "a", "v", "a">>,
    <<"K", "u", "b", "e", "r", "n", "e", "t", "e", "s">>,
    <<"D", "o", "c", "k", "e", "r">>,
    <<"A", "W", "S">>,
    <<"G", "C", "P">>,
    <<"A", "z", "u", "r", "e">>,
    <<"P", "o", "s", "t", "g", "r", "e", "S", "Q", "L">>,
    <<"M", "o", "n", "g", "o", "D", "B">>,
    <<"R", "e", "d", "i", "s">>,
    <<"G", "r", "a", "p", "h", "Q", "L">>,
    <<"R", "E", "S", "T", " ", "A", "P", "I">>,
    <<"M", "i", "c", "r", "o", "s", "e", "r", "v", "i", "c", "e", "s">>,
    <<"M", "a", "c", "h", "i", "n", "e", " ", "L", "e", "a", "r", "n", "i", "n", "g">>,
    <<"A", "I">>,
    <<"D", "a", "t", "a", " ", "S", "c", "i", "e", "n", "c", "e">>,
    <<"S", "Q", "L">>,
    <<"N", "o", "S", "Q", "L">>,
    <<"C", "I", "/", "C", "D">>,
    <<"G", "i", "t">>,
    <<"A", "g", "i", "l", "e">>,
    <<"S", "c", "r", "u", "m">>,
    <<"T", "e", "n", "s", "o", "r", "F", "l", "o", "w">>,
    <<"P", "y", "T", "o", "r", "c", "h">>,
    <<"S", "p", "a", "r", "k">>,
    <<"K", "a", "f", "k", "a">>>>

\* skill.toLowerCase() for every skill of the catalog
techSkillsLowerCase == [s \in DOMAIN techSkills |-> toLowerCase(techSkills[s])]

\* the skills of the catalog, by their position, that a posting mentions in
\* its title or its description
MentionedIn(job) ==
  LET text == toLowerCase(job.title \o <<" ">> \o job.description)
  IN {s \in DOMAIN techSkills : includes(text, techSkillsLowerCase[s])}

Range(s) == {s[k] : k \in DOMAIN s}

\* the keys of skillCounts in the order the Map received them: the walk over
\* the postings inserts a skill at the first posting that mentions it, the
\* skills of one posting in catalog order
RECURSIVE InsertionOrder(_)
InsertionOrder(mentions) ==
  IF mentions = << >> THEN << >>
  ELSE LET before == InsertionOrder(SubSeq(mentions, 1, Len(mentions) - 1))
           seen == Range(before)
       IN before \o SelectSeq([s \in DOMAIN techSkills |-> s],
                              LAMBDA s : s \in mentions[Len(mentions)] /\ s \notin seen)

\* Array.prototype.sort with (a, b) => b[1] - a[1]: descending counts, and
\* the sort being stable, entries of equal count keep their order
SortByCount(keys, count) ==
  LET rank == [a \in DOMAIN keys |->
                 Cardinality({b \in DOMAIN keys :
                                \/ count[keys[b]] > count[keys[a]]
                                \/ count[keys[b]] = count[keys[a]] /\ b < a})]
  IN [r \in 1..Len(keys) |-> keys[CHOOSE a \in DOMAIN keys : rank[a] = r - 1]]

\* the number of skills extractTopSkills keeps
TopSkillsLimit == 10

extractTopSkills(jobs) ==
  LET mentions == [k \in DOMAIN jobs |-> MentionedIn(jobs[k])]
      count == [s \in DOMAIN techSkills |->
                  Cardinality({k \in DOMAIN jobs : s \in mentions[k]})]
      sorted == SortByCount(InsertionOrder(mentions), count)
  IN [r \in 1..Min(Len(sorted), TopSkillsLimit) |-> techSkills[sorted[r]]]

\* a posting as a probe builds it
Posting(title, department, description) ==
  [title |-> title, department |-> department, description |-> description]

\* the postings the probes may find
Postings ==
  {\* Senior Software Engineer / Senior Software Engineer / Python, React
   Posting(<<"S", "e", "n", "i", "o", "r", " ", "S", "o", "f", "t", "w", "a", "r", "e", " ", "E", "n", "g", "i", "n", "e", "e", "r">>,
           <<"S", "e", "n", "i", "o", "r", " ", "S", "o", "f", "t", "w", "a", "r", "e", " ", "E", "n", "g", "i", "n", "e", "e", "r">>,
           <<"P", "y", "t", "h", "o", "n", ",", " ", "R", "e", "a", "c", "t">>),
   \* Enterprise Account Executive / Enterprise Account Executive / (no description)
   Posting(<<"E", "n", "t", "e", "r", "p", "r", "i", "s", "e", " ", "A", "c", "c", "o", "u", "n", "t", " ", "E", "x", "e", "c", "u", "t", "i", "v", "e">>,
           <<"E", "n", "t", "e", "r", "p", "r", "i", "s", "e", " ", "A", "c", "c", "o", "u", "n", "t", " ", "E", "x", "e", "c", "u", "t", "i", "v", "e">>,
           << >>),
   \* Sales Engineer / Sales Engineer / Kafka
   Posting(<<"S", "a", "l", "e", "s", " ", "E", "n", "g", "i", "n", "e", "e", "r">>,
           <<"S", "a", "l", "e", "s", " ", "E", "n", "g", "i", "n", "e", "e", "r">>,
           <<"K", "a", "f", "k", "a">>),
   \* Designer / Design / (no description)
   Posting(<<"D", "e", "s", "i", "g", "n", "e", "r">>,
           <<"D", "e", "s", "i", "g", "n">>,
           << >>),
   \* Backend Developer / Other / Go, Rust, Kafka
   Posting(<<"B", "a", "c", "k", "e", "n", "d", " ", "D", "e", "v", "e", "l", "o", "p", "e", "r">>,
           <<"O", "t", "h", "e", "r">>,
           <<"G", "o", ",", " ", "R", "u", "s", "t", ",", " ", "K", "a", "f", "k", "a">>),
   \* Platform Lead / TECHNICAL SUPPORT / React Vue Angular Node.js Python Go Rust TypeScript JavaScript Kubernetes
   Posting(<<"P", "l", "a", "t", "f", "o", "r", "m", " ", "L", "e", "a", "d">>,
           <<"T", "E", "C", "H", "N", "I", "C", "A", "L", " ", "S", "U", "P", "P", "O", "R", "T">>,
           <<"R", "e", "a", "c", "t", " ", "V", "u", "e", " ", "A", "n", "g", "u", "l", "a", "r", " ", "N", "o", "d", "e", ".", "j", "s", " ", "P", "y", "t", "h", "o", "n", " ", "G", "o", " ", "R", "u", "s", "t", " ", "T", "y", "p", "e", "S", "c", "r", "i", "p", "t", " ", "J", "a", "v", "a", "S", "c", "r", "i", "p", "t", " ", "K", "u", "b", "e", "r", "n", "e", "t", "e", "s">>),
   \* Marketer / Growth Marketing / SQL
   Posting(<<"M", "a", "r", "k", "e", "t", "e", "r">>,
           <<"G", "r", "o", "w", "t", "h", " ", "M", "a", "r", "k", "e", "t", "i", "n", "g">>,
           <<"S", "Q", "L">>),
   \* CSM / Customer Success / (no description)
   Posting(<<"C", "S", "M">>,
           <<"C", "u", "s", "t", "o", "m", "e", "r", " ", "S", "u", "c", "c", "e", "s", "s">>,
           << >>),
   \* Controller / Finance / (no description)
   Posting(<<"C", "o", "n", "t", "r", "o", "l", "l", "e", "r">>,
           <<"F", "i", "n", "a", "n", "c", "e">>,
           << >>),
   \* DevOps / DevOps / Docker, AWS, CI/CD
   Posting(<<"D", "e", "v", "O", "p", "s">>,
           <<"D", "e", "v", "O", "p", "s">>,
           <<"D", "o", "c", "k", "e", "r", ",", " ", "A", "W", "S", ",", " ", "C", "I", "/", "C", "D">>)}

\* the most postings the probes find together
MaxPostings == 2

\* the probes in the order scrapeJobs starts them: scrapeGreenhouse,
\* scrapeLever, scrapeAshby, scrapeCareersPage
Probes == 1..4

\* a Greenhouse or Lever posting has no description, an Ashby posting has the
\* one the board publishes
PostingsOf(probe) ==
  IF probe = 3 THEN {j \in Postings : j.description # << >>}
  ELSE {j \in Postings : j.description = << >>}

\* what a fetch of a board URL gives: it throws or times out (status 0), it
\* answers a status, and a page has the postings the pattern of the board
\* finds in it
BoardResponse(status, jobs) == [status |-> status, jobs |-> jobs]

BoardResponses(probe, room) ==
  {BoardResponse(status, << >>) : status \in {0, 404, 200}}
  \cup {BoardResponse(200, jobs) : jobs \in SeqsUpTo(PostingsOf(probe), room) \ {<< >>}}

\* the URL is not requested
NotRequested == [status |-> 0 - 1, jobs |-> << >>]

\* the request succeeded and the page has postings
Delivers(r) ==
  r.status > 0 /\ Ok(r.status) /\ r.jobs # << >>

\* scrapeGreenhouse, scrapeLever, scrapeAshby: the postings of the first of
\* the two URLs that delivers, else none
scrapeBoard(first, second) ==
  IF Delivers(first) THEN first.jobs
  ELSE IF Delivers(second) THEN second.jobs
  ELSE << >>

\* the posting scrapeCareersPage returns for a careers page that shows jobs:
\* 'Various positions', 'Multiple', 'Found 12 job listings on careers page'
VariousPositions ==
  Posting(<<"V", "a", "r", "i", "o", "u", "s", " ", "p", "o", "s", "i", "t", "i", "o", "n", "s">>,
          <<"M", "u", "l", "t", "i", "p", "l", "e">>,
          <<"F", "o", "u", "n", "d", " ", "1", "2", " ", "j", "o", "b", " ", "l", "i", "s", "t", "i", "n", "g", "s", " ", "o", "n", " ", "c", "a", "r", "e", "e", "r", "s", " ", "p", "a", "g", "e">>)

\* scrapeCareersPage: one posting if one of the four URLs answers with a page
\* on which estimateJobCount counts jobs
scrapeCareersPage(found) == IF found THEN <<VariousPositions>> ELSE << >>

\* a probe that has not settled, and one that has: its value, and whether all
\* its requests failed (threw, timed out or were answered a non-success
\* status)
PendingProbe == [status |-> "pending"]
SettledProbe(value, failed) == [status |-> "fulfilled", value |-> value, failed |-> failed]

\* the postings the settled probes hold
RECURSIVE Collected(_)
Collected(probes) ==
  IF probes = << >> THEN 0
  ELSE Collected(SubSeq(probes, 1, Len(probes) - 1))
       + (IF probes[Len(probes)].status = "fulfilled"
          THEN Len(probes[Len(probes)].value) ELSE 0)

\* nothing is returned if a probe failed
CollectAllOrNothing(settled) ==
  IF \E k \in DOMAIN settled : settled[k].failed THEN << >>
  ELSE settled[1].value \o settled[2].value \o settled[3].value \o settled[4].value

\* for (const result of results): the values of the fulfilled probes that
\* have postings, pushed in the order of the probes
RECURSIVE CollectFulfilled(_)
CollectFulfilled(settled) ==
  IF settled = << >> THEN << >>
  ELSE LET result == settled[Len(settled)]
           before == CollectFulfilled(SubSeq(settled, 1, Len(settled) - 1))
       IN IF result.status = "fulfilled" /\ Len(result.value) > 0
          THEN before \o result.value
          ELSE before

\* scrapeJobs is called: the four probes are started, then Promise.allSettled
\* is awaited
StartProbes ==
  /\ scraper.pc = "idle"
  /\ scraper' = [pc |-> "probing", probes |-> [p \in Probes |-> PendingProbe]]
  /\ UNCHANGED <<engine, hc, detector, electron, prober, fetcher>>

\* a probe settles: it never rejects, its own try/catch returns []
SettleProbe(p) ==
  /\ scraper.pc = "probing"
  /\ scraper.probes[p].status = "pending"
  /\ LET room == MaxPostings - Collected(scraper.probes)
     IN \/ /\ p # 4
           /\ \E first \in BoardResponses(p, room) :
                \E second \in IF Delivers(first) THEN {NotRequested}
                              ELSE BoardResponses(p, room) :
                  scraper' = [scraper EXCEPT !.probes[p] =
                                SettledProbe(scrapeBoard(first, second),
                                             (first.status = 0 \/ ~Ok(first.status))
                                             /\ (second.status = 0 \/ ~Ok(second.status)))]
        \/ /\ p = 4
           /\ \E found \in BOOLEAN, failed \in BOOLEAN :
                /\ ~(found /\ failed)
                /\ scraper' = [scraper EXCEPT !.probes[p] =
                                 SettledProbe(scrapeCareersPage(found), failed)]
  /\ UNCHANGED <<engine, hc, detector, electron, prober, fetcher>>

\* all four probes have settled: scrapeJobs collects their postings,
\* classifies them, extracts the skills and returns
ReturnHiringData ==
  /\ scraper.pc = "probing"
  /\ \A p \in Probes : scraper.probes[p].status # "pending"
  /\ LET jobListings == CollectFulfilled(scraper.probes)
     IN scraper' = [pc |-> "returned", probes |-> scraper.probes,
                    jobListings |-> jobListings,
                    result |-> [openPositions |-> Len(jobListings),
                                jobListings |-> jobListings,
                                departmentHiring |-> departmentHiring(jobListings),
                                topSkillsHiring |-> extractTopSkills(jobListings)]]
  /\ UNCHANGED <<engine, hc, detector, electron, prober, fetcher>>

NextJobs ==
  \/ StartProbes
  \/ \E p \in Probes : SettleProbe(p)
  \/ ReturnHiringData

SpecJobs == Init /\ [][NextJobs]_vars

(***************************************************************************)
(* MobileAppDetector called on its own                                     *)
(***************************************************************************)
\* A page is the sequence of the pieces of HTML the regular expressions of the
\* detector react to, in document order.
Element(kind, id) == [kind |-> kind, id |-> id]

\* <meta name="apple-itunes-app" content="app-id=<id>, app-argument=<url>">
BannerWithArgument(id, url) == [kind |-> "apple-itunes-app", id |-> id, argument |-> url]

AppIds == {"123", "456"}
PackageIds == {"com.acme.app"}

PageElements ==
  {Element("apps.apple.com", id) : id \in AppIds}
  \cup {Element("itunes.apple.com", "123"),
        Element("apple-itunes-app", "123"),
        BannerWithArgument("456", "acme://open"),
        Element("al:ios:app_store_id", "123"),
        Element("apple-touch-icon", "")}
  \cup {Element(kind, id) :
          kind \in {"play.google.com", "al:android:package", "google-play-app"},
          id \in PackageIds}
  \cup {Element("intent://", "acme")}

\* the longest page
MaxElements == 3

MobilePages == SeqsUpTo(PageElements, MaxElements)

\* a MobileApp; appId is "undefined" where the pass sets none, and a URL is
\* the sequence of its parts
MobileApp(platform, appId, appUrl, detectionMethod) ==
  [platform |-> platform, appId |-> appId, appUrl |-> appUrl,
   detectionMethod |-> detectionMethod]

\* the matches of one regular expression, in document order
Matches(html, kind) == SelectSeq(html, LAMBDA e : e.kind = kind)

\* one app per match: the captured id is the appId and ends the appUrl
AppsOf(matches, platform, urlPrefix, detectionMethod) ==
  [k \in DOMAIN matches |->
     MobileApp(platform, matches[k].id, <<urlPrefix, matches[k].id>>, detectionMethod)]

detectAppStoreLinks(html) ==
  AppsOf(Matches(html, "apps.apple.com"), "ios",
         "https://apps.apple.com/us/app/acme/id", "App Store URL")
  \o AppsOf(Matches(html, "itunes.apple.com"), "ios",
            "https://itunes.apple.com/us/app/acme/id", "iTunes URL")

detectPlayStoreLinks(html) ==
  AppsOf(Matches(html, "play.google.com"), "android",
         "https://play.google.com/store/apps/details?id=", "Google Play URL")

detectSmartBanners(html) ==
  AppsOf(Matches(html, "apple-itunes-app"), "ios",
         "https://apps.apple.com/app/id", "iOS Smart Banner")
  \o AppsOf(Matches(html, "al:ios:app_store_id"), "ios",
            "https://apps.apple.com/app/id", "iOS App Links Meta")
  \o AppsOf(Matches(html, "al:android:package"), "android",
            "https://play.google.com/store/apps/details?id=", "Android App Links Meta")
  \o AppsOf(Matches(html, "google-play-app"), "android",
            "https://play.google.com/store/apps/details?id=", "Google Play Meta Tag")

\* the first banner with an app-argument counts if the page has a touch icon;
\* every intent:// URL counts; neither has an appId
detectDeepLinks(html) ==
  LET arguments == SelectSeq(html, LAMBDA e : "argument" \in DOMAIN e)
      intents == Matches(html, "intent://")
  IN (IF Matches(html, "apple-touch-icon") # << >> /\ arguments # << >>
      THEN << MobileApp("ios", "undefined", <<arguments[1].argument>>, "Universal Links") >>
      ELSE << >>)
     \o [k \in DOMAIN intents |->
           MobileApp("android", "undefined", <<"intent://", intents[k].id>>,
                     "Android Intent URL")]

\* the download phrases add no app
detectAppPatterns(html) == << >>

\* `${app.platform}-${app.appId || app.appUrl}`: the platform being 'ios' or
\* 'android', two keys are equal exactly if both parts are
AppKey(app) ==
  <<app.platform, "-", IF TruthyStr(app.appId) THEN <<app.appId>> ELSE app.appUrl>>

\* no app is dropped
deduplicateAppsKeepAll(apps) == apps

RECURSIVE deduplicateApps(_)
deduplicateApps(apps) ==
  IF apps = << >> THEN << >>
  ELSE LET unique == deduplicateApps(SubSeq(apps, 1, Len(apps) - 1))
           app == apps[Len(apps)]
       IN IF AppKey(app) \in {AppKey(unique[k]) : k \in DOMAIN unique}
          THEN unique
          ELSE Append(unique, app)

\* the MobileAppData detectMobileApps returns for a page, with the apps of the
\* five passes before deduplication
detectMobileAppsOn(html) ==
  LET apps == detectAppStoreLinks(html) \o detectPlayStoreLinks(html)
              \o detectSmartBanners(html) \o detectDeepLinks(html)
              \o detectAppPatterns(html)
      uniqueApps == deduplicateApps(apps)
      iosAppsList == SelectSeq(uniqueApps, LAMBDA a : a.platform = "ios")
      androidAppsList == SelectSeq(uniqueApps, LAMBDA a : a.platform = "android")
  IN [hasIosApp |-> Len(iosAppsList) > 0,
      hasAndroidApp |-> Len(androidAppsList) > 0,
      iosApps |-> iosAppsList,
      androidApps |-> androidAppsList,
      allApps |-> uniqueApps,
      apps |-> apps]

\* detectMobileApps is called on a page
CallDetectMobileApps ==
  /\ detector.pc = "idle"
  /\ \E html \in MobilePages : detector' = [pc |-> "called", html |-> html]
  /\ UNCHANGED <<engine, hc, scraper, electron, prober, fetcher>>

\* detectMobileApps returns
ReturnMobileAppData ==
  /\ detector.pc = "called"
  /\ detector' = [pc |-> "returned", html |-> detector.html,
                  result |-> detectMobileAppsOn(detector.html)]
  /\ UNCHANGED <<engine, hc, scraper, electron, prober, fetcher>>

NextMobile ==
  \/ CallDetectMobileApps
  \/ ReturnMobileAppData

SpecMobile == Init /\ [][NextMobile]_vars

(***************************************************************************)
(* The Electron main process                                               *)
(***************************************************************************)
\* the most windows the activate handler creates
MaxWindows == 3

\* createWindow: a new BrowserWindow that loads SERVER_URL
createWindow(e) ==
  [e EXCEPT !.mainWindow = "window", !.created = @ + 1, !.open = @ + 1,
            !.createdBeforeReady = @ \/ ~e.ready]

\* stopServer without the kill
stopServerForgetOnly(e) == [e EXCEPT !.serverProcess = "null"]

\* stopServer
stopServer(e) ==
  IF e.serverProcess # "null"
  THEN [e EXCEPT !.signals = @ \cup {"SIGTERM"}, !.serverProcess = "null"]
  ELSE e

\* app.quit(): 'before-quit' runs stopServer, the windows are closed (each
\* 'closed' handler sets mainWindow to null) and the app terminates
appQuit(e) ==
  [stopServer(e) EXCEPT !.pc = "quit", !.open = 0, !.mainWindow = "null"]

\* app.whenReady() resolves: startServer spawns the server and starts waitOn
\* (process.platform is 'darwin' or not)
WhenReady ==
  /\ electron.pc = "launching"
  /\ \E platform \in {"darwin", "other"} :
       electron' = [electron EXCEPT !.pc = "waiting", !.platform = platform,
                                    !.serverProcess = "child", !.server = "starting"]
  /\ UNCHANGED <<engine, hc, scraper, detector, prober, fetcher>>

\* the child process starts listening on the port
ServerListens ==
  /\ electron.server = "starting"
  /\ electron' = [electron EXCEPT !.server = "listening"]
  /\ UNCHANGED <<engine, hc, scraper, detector, prober, fetcher>>

\* the child process exits, by itself or because of a signal
ServerExits ==
  /\ electron.server \in {"starting", "listening"}
  /\ electron' = [electron EXCEPT !.server = "exited"]
  /\ UNCHANGED <<engine, hc, scraper, detector, prober, fetcher>>

\* waitOn gets an answer from SERVER_URL: startServer resolves and the
\* whenReady callback creates the window
WaitOnResolves ==
  /\ electron.pc = "waiting"
  /\ electron.server = "listening"
  /\ electron' = [createWindow([electron EXCEPT !.ready = TRUE]) EXCEPT !.pc = "running"]
  /\ UNCHANGED <<engine, hc, scraper, detector, prober, fetcher>>

\* waitOn gives up after its timeout: startServer rejects and the whenReady
\* callback calls app.quit()
WaitOnTimesOut ==
  /\ electron.pc = "waiting"
  /\ electron' = appQuit([electron EXCEPT !.timedOut = TRUE])
  /\ UNCHANGED <<engine, hc, scraper, detector, prober, fetcher>>

\* 'activate' (macOS: the dock icon is clicked, the app is activated)
Activate ==
  /\ electron.pc \in {"waiting", "running"}
  /\ electron.platform = "darwin"
  /\ electron.created < MaxWindows
  /\ electron.mainWindow = "null" /\ electron.serverProcess # "null"
  /\ electron' = createWindow(electron)
  /\ UNCHANGED <<engine, hc, scraper, detector, prober, fetcher>>

\* a window is closed: its 'closed' handler sets mainWindow to null, and
\* 'window-all-closed' follows the last one
CloseWindow ==
  /\ electron.pc \in {"waiting", "running"}
  /\ electron.open > 0
  /\ LET e == [electron EXCEPT !.open = @ - 1, !.mainWindow = "null"]
     IN electron' = IF e.open = 0 /\ e.platform # "darwin" THEN appQuit(stopServer(e)) ELSE e
  /\ UNCHANGED <<engine, hc, scraper, detector, prober, fetcher>>

\* the user quits the app: 'before-quit'
Quit ==
  /\ electron.pc \in {"waiting", "running"}
  /\ electron' = appQuit(electron)
  /\ UNCHANGED <<engine, hc, scraper, detector, prober, fetcher>>

\* 'uncaughtException'
UncaughtException ==
  /\ electron.pc \in {"waiting", "running"}
  /\ electron' = appQuit(stopServer(electron))
  /\ UNCHANGED <<engine, hc, scraper, detector, prober, fetcher>>

NextElectron ==
  \/ WhenReady
  \/ ServerListens
  \/ ServerExits
  \/ WaitOnResolves
  \/ WaitOnTimesOut
  \/ Activate
  \/ CloseWindow
  \/ Quit
  \/ UncaughtException

SpecElectron == Init /\ [][NextElectron]_vars

(***************************************************************************)
(* findDomainFromName and verifyUrlExists called on their own              *)
(***************************************************************************)
\* the statuses of the HEAD and of the GET request for the proposed domain,
\* 0 for a request that throws or times out
DomainHeadStatuses == {0, 200, 403, 404, 405}
DomainGetStatuses == {0, 200, 403, 404}

\* the HEAD statuses of the five patterns
DirectPatternProbes ==
  PatternProbes
  \cup {<<404, 200, 404, 404, 404>>, <<0, 0, 404, 200, 0>>, <<403, 404, 200, 200, 404>>}

\* findDomainFromName is called: the structuring call is awaited
CallFindDomainFromName ==
  /\ prober.pc = "idle"
  /\ \E ai \in DomainAnswers, head \in DomainHeadStatuses, get \in DomainGetStatuses,
        patterns \in DirectPatternProbes :
       prober' = [pc |-> "resolving", companyName |-> "Acme", ai |-> ai,
                  head |-> head, get |-> get, patterns |-> patterns]
  /\ UNCHANGED <<engine, hc, scraper, detector, electron, fetcher>>

\* findDomainFromName returns, after the requests it issued
ReturnDomain ==
  /\ prober.pc = "resolving"
  /\ prober' =
       [pc |-> "resolved", companyName |-> prober.companyName, ai |-> prober.ai,
        head |-> prober.head, get |-> prober.get, patterns |-> prober.patterns,
        result |-> findDomainFromName(prober.companyName, prober.ai, prober.head,
                                      prober.get, prober.patterns),
        requests |-> DomainRequests(prober.companyName, prober.ai, prober.head,
                                    prober.get, prober.patterns)]
  /\ UNCHANGED <<engine, hc, scraper, detector, electron, fetcher>>

\* the statuses of the HEAD and of the GET request of verifyUrlExists
VerifyHeadStatuses == {0, 200, 204, 301, 403, 404, 405, 429, 500, 999}
VerifyGetStatuses == {0, 200, 204, 403, 404, 405, 999}

\* verifyUrlExists is called: the HEAD request is awaited
CallVerifyUrlExists ==
  /\ prober.pc = "idle"
  /\ \E head \in VerifyHeadStatuses, get \in VerifyGetStatuses :
       prober' = [pc |-> "verifying", head |-> head, get |-> get]
  /\ UNCHANGED <<engine, hc, scraper, detector, electron, fetcher>>

\* verifyUrlExists returns, after the GET request if it issued one
ReturnVerified ==
  /\ prober.pc = "verifying"
  /\ prober' = [pc |-> "verified", head |-> prober.head, get |-> prober.get,
                result |-> verifyUrlExists(prober.head, prober.get),
                getIssued |-> VerifyIssuesGet(prober.head)]
  /\ UNCHANGED <<engine, hc, scraper, detector, electron, fetcher>>

NextProbes ==
  \/ CallFindDomainFromName
  \/ ReturnDomain
  \/ CallVerifyUrlExists
  \/ ReturnVerified

SpecProbes == Init /\ [][NextProbes]_vars

(***************************************************************************)
(* GitHubFetcher.fetchOrgData called on its own                            *)
(***************************************************************************)
\* a JSON value that is a number, and one that is a string (the sequence of
\* the pieces it was concatenated from)
Num(n) == [kind |-> "number", n |-> n]
Str(pieces) == [kind |-> "string", pieces |-> pieces]

\* the body of /repos/<name>/languages: bytes per language, or the error
\* object GitHub sends with a 403 when the rate limit is exhausted
TypeScriptBody == [TypeScript |-> Num(10)]
MixedBody == [TypeScript |-> Num(4), Go |-> Num(6)]
RateLimitBody == [message |-> Str(<<"API rate limit exceeded">>)]

\* the outcome of the language lookup of a repository: the request throws
\* (status 0), or it is answered with a status and a JSON body
Lookups ==
  {[status |-> 0, body |-> TypeScriptBody],
   [status |-> 200, body |-> TypeScriptBody],
   [status |-> 200, body |-> MixedBody],
   [status |-> 403, body |-> RateLimitBody]}

\* a repository of the list /orgs/<org>/repos returns
Repo(archived, lookup) == [archived |-> archived, lookup |-> lookup]

RepoKinds == {Repo(archived, lookup) : archived \in BOOLEAN, lookup \in Lookups}

\* the number of repositories fetchOrgData looks at
ReposLimit == 20

\* the longest short repository list
MaxRepos == 3

\* the repository lists: every short list, and lists around the limit
RepoLists ==
  SeqsUpTo(RepoKinds, MaxRepos)
  \cup {[k \in 1..n |-> kind] :
          n \in {ReposLimit, ReposLimit + 1},
          kind \in {Repo(FALSE, [status |-> 200, body |-> TypeScriptBody]),
                    Repo(FALSE, [status |-> 403, body |-> RateLimitBody])}}
  \cup {[k \in 1..(ReposLimit + 2) |->
           IF k = 2 THEN Repo(TRUE, [status |-> 200, body |-> MixedBody])
           ELSE Repo(FALSE, [status |-> 200, body |-> MixedBody])]}

\* (languageBytes[lang] || 0) + bytes: numbers add; a string is appended to
\* what is there, to "0" if nothing is
AddBytes(languageBytes, lang, bytes) ==
  IF bytes.kind = "number"
  THEN Num((IF lang \in DOMAIN languageBytes THEN languageBytes[lang].n ELSE 0) + bytes.n)
  ELSE Str((IF lang \in DOMAIN languageBytes THEN languageBytes[lang].pieces ELSE <<"0">>)
           \o bytes.pieces)

\* the aggregate after the entries of one body
AddLanguages(languageBytes, body) ==
  [lang \in DOMAIN languageBytes \cup DOMAIN body |->
     IF lang \in DOMAIN body THEN AddBytes(languageBytes, lang, body[lang])
     ELSE languageBytes[lang]]

\* the try block of the loop completes unless fetch throws
LanguagesLookedUp(lookup) == lookup.status # 0

\* fetchOrgData is called: the organisation and its repository list are
\* requested; null is returned if that fails
CallFetchOrgData ==
  /\ fetcher.pc = "idle"
  /\ \E orgStatus \in {0, 200, 404}, reposReadable \in BOOLEAN, repos \in RepoLists :
       fetcher' =
         IF fetchOrgData("acme", orgStatus, reposReadable).isNull
         THEN [pc |-> "returned", isNull |-> TRUE]
         ELSE [pc |-> "languages", isNull |-> FALSE, repos |-> repos, k |-> 1,
               repositories |-> << >>, languageBytes |-> << >>, requested |-> << >>]
  /\ UNCHANGED <<engine, hc, scraper, detector, electron, prober>>

\* the loop over repos.slice(0, 20) looks at the next repository: an
\* archived one is passed over, the languages of another are requested
NextRepo ==
  /\ fetcher.pc = "languages"
  /\ fetcher.k <= Min(Len(fetcher.repos), ReposLimit)
  /\ LET repo == fetcher.repos[fetcher.k]
     IN fetcher' =
          IF repo.archived THEN [fetcher EXCEPT !.k = @ + 1]
          ELSE IF LanguagesLookedUp(repo.lookup)
          THEN [fetcher EXCEPT !.k = @ + 1,
                               !.requested = Append(@, fetcher.k),
                               !.languageBytes = AddLanguages(@, repo.lookup.body),
                               !.repositories = Append(@, fetcher.k)]
          ELSE [fetcher EXCEPT !.k = @ + 1, !.requested = Append(@, fetcher.k)]
  /\ UNCHANGED <<engine, hc, scraper, detector, electron, prober>>

\* fetchOrgData returns the repositories and the aggregate
ReturnOrgData ==
  /\ fetcher.pc = "languages"
  /\ fetcher.k > Min(Len(fetcher.repos), ReposLimit)
  /\ fetcher' = [fetcher EXCEPT !.pc = "returned"]
  /\ UNCHANGED <<engine, hc, scraper, detector, electron, prober>>

NextFetcher ==
  \/ CallFetchOrgData
  \/ NextRepo
  \/ ReturnOrgData

SpecFetcher == Init /\ [][NextFetcher]_vars







(***************************************************************************)
(* Properties                                                              *)
(***************************************************************************)
\* the tasks whose promise is fulfilled, and the result each carries
Finished == {i \in Tasks : results[i].state = "fulfilled"}
ResultOf(i) == results[i].value
Succeeded == {i \in Finished : ResultOf(i).success}
Failed == {i \in Finished : ~ResultOf(i).success}

\* the input of task i names no company at all (findDomainFromName, the only
\* step that fills in a domain, needs a company name)
NoIdentifier(i) ==
  /\ ~TruthyStr(task[i].input.domain)
  /\ ~TruthyStr(task[i].input.companyName)
  /\ ~TruthyStr(task[i].input.linkedinUrl)

\* the entries of a sources list
Entries(sources) == {sources[k] : k \in 1..Len(sources)}

\* 1 for a true condition, 0 for a false one
Bracket(cond) == IF cond THEN 1 ELSE 0

\* the confidence formula, with "present" read as "truthy" (a non-zero number,
\* a non-empty string, an object that was built)
ConfidenceOfTruthyFields(data) ==
  Min(100, 20 * Cardinality(Entries(data.sources))
           + 10 * Bracket(TruthyNum(data.employeeCount))
           + 10 * Bracket(TruthyStr(data.totalFundingRaised))
           + 5 * Bracket(TruthyStr(data.headquarters.city))
           + 5 * Bracket(TruthyNum(data.founded))
           + 10 * Bracket(~data.latestFundingRound.isNull)
           + 5 * Bracket(~data.ceo.isNull))

\* the confidence formula, with "present" read as "the record holds a value"
ConfidenceOfPresentFields(data) ==
  Min(100, 20 * Cardinality(Entries(data.sources))
           + 10 * Bracket(data.employeeCount # undefined)
           + 10 * Bracket(data.totalFundingRaised # "undefined")
           + 5 * Bracket(data.headquarters.city # "undefined")
           + 5 * Bracket(data.founded # undefined)
           + 10 * Bracket(~data.latestFundingRound.isNull)
           + 5 * Bracket(~data.ceo.isNull))

\* the social links of a record that hold a URL
ExposedLinks(data) ==
  {u \in {data.linkedinUrl, data.twitterUrl, data.githubUrl} : TruthyStr(u)}

(* C1: every result enrichCompany returns has one of two shapes: success =  *)
(* true with a populated data record and no error, or success = false with *)
(* an error and no data.                                                   *)
C1_ResultShape ==
  \A i \in Finished :
    LET r == ResultOf(i)
    IN IF r.success
       THEN "data" \in DOMAIN r /\ "error" \notin DOMAIN r
            /\ "sources" \in DOMAIN r.data
       ELSE "error" \in DOMAIN r /\ "data" \notin DOMAIN r

\* one call has produced a result of each shape
C1_Witness == Succeeded # {} /\ Failed # {}

(* C2: enrichBatch never rejects; it resolves with one result per input,   *)
(* element i being the result of the enrichment launched for input i       *)
(* whatever order the enrichments settled in, and the response of          *)
(* POST /api/enrich pairs domains[i] with that element.                    *)
C2_BatchOrder ==
  /\ batch.state # "rejected"
  /\ batch.state = "fulfilled" =>
       /\ Len(batch.value) = Len(task)
       /\ \A i \in Tasks :
            /\ results[i].state = "fulfilled"
            /\ batch.value[i] = ResultOf(i)
            /\ batch.value[i].success = ~task[i].threw
            /\ batch.value[i].success => batch.value[i].data.sources = task[i].sources
  /\ (caller.kind = "POST /api/enrich" /\ response.status = 200) =>
       /\ Len(response.results) = Len(caller.domains)
       /\ \A i \in 1..Len(caller.domains) :
            /\ response.results[i].domain = caller.domains[i]
            /\ task[i].input.domain = Trim(caller.domains[i])
            /\ response.results[i].success = ResultOf(i).success
            /\ response.results[i].confidence = ResultOf(i).confidence
            /\ ResultOf(i).success => response.results[i].data = ResultOf(i).data
            /\ ~ResultOf(i).success => response.results[i].error = ResultOf(i).error

\* a batch of two answered although its second enrichment settled first and
\* the two results differ
C2_Witness ==
  /\ caller.kind = "POST /api/enrich"
  /\ response.status = 200
  /\ Len(task) = 2
  /\ task[2].settledBefore = 0
  /\ task[1].settledBefore = 1
  /\ ResultOf(1) # ResultOf(2)

(* C3: in a batch, the step in which one enrichment fails (its structuring *)
(* call throws) settles that enrichment alone with success = false and     *)
(* leaves every sibling's locals and promise, and the batch, as they were;  *)
(* and the batch settles fulfilled with every result as its own enrichment *)
(* produced it, success = false exactly where an exception was caught.       *)
C3_FailureIsolated ==
  [][ /\ \A i \in Tasks :
           (Len(task') = Len(task) /\ ~task[i].threw /\ task'[i].threw) =>
              /\ results'[i].state = "fulfilled"
              /\ ~results'[i].value.success
              /\ \A j \in Tasks \ {i} : task'[j] = task[j] /\ results'[j] = results[j]
              /\ batch' = batch
      /\ (batch.state = "pending" /\ batch'.state # "pending") =>
              /\ batch'.state = "fulfilled"
              /\ Len(batch'.value) = Len(task)
              /\ \A j \in Tasks :
                   /\ batch'.value[j] = results[j].value
                   /\ batch'.value[j].success = ~task[j].threw ]_vars

\* a batch of two resolved with one failed element and one successful sibling
C3_Witness ==
  /\ batch.state = "fulfilled"
  /\ Len(task) = 2
  /\ \E i, j \in Tasks :
       /\ task[i].threw /\ task[i].aiCalls = 1 /\ ~batch.value[i].success
       /\ ~task[j].threw /\ batch.value[j].success

(* C4: the promise of enrichCompany is never rejected: an exception raised *)
(* at any step ends the call with the result success = false, error = the  *)
(* message of the exception, confidence = 0.                               *)
C4_NeverThrows ==
  \A i \in Tasks :
    /\ results[i].state # "rejected"
    /\ task[i].pc = "done" => results[i].state = "fulfilled"
    /\ task[i].threw =>
         results[i] = Fulfilled([success |-> FALSE,
                                 error |-> task[i].thrown.message,
                                 confidence |-> 0])
    /\ i \in Failed => task[i].threw

\* the structuring call threw and the call has returned
C4_Witness ==
  \E i \in Finished :
    task[i].threw /\ task[i].aiCalls = 1
    /\ task[i].thrown.message = "No object generated"

(* C5 as amended: for every successful enrichment, confidence = min(100,   *)
(* 20 * number of distinct sources + 10 [employee count truthy] + 10       *)
(* [total funding truthy] + 5 [headquarters city truthy] + 5 [founding     *)
(* year truthy] + 10 [latest funding round built] + 5 [CEO built]), where  *)
(* truthy means a non-zero number or a non-empty string; the value lies in *)
(* [0, 100] and the sources list has no duplicates.                        *)
C5_ConfidenceOfTruthyFields ==
  \A i \in Succeeded :
    LET r == ResultOf(i)
    IN /\ r.confidence = ConfidenceOfTruthyFields(r.data)
       /\ r.confidence >= 0 /\ r.confidence <= 100
       /\ Cardinality(Entries(r.data.sources)) = Len(r.data.sources)

\* a successful enrichment whose record holds the employee count 0, an empty
\* funding figure and an empty city, and names at least one source
C5_Witness ==
  \E i \in Succeeded :
    LET data == ResultOf(i).data
    IN data.employeeCount = 0 /\ data.totalFundingRaised = ""
       /\ data.headquarters.city = "" /\ Len(data.sources) >= 1

(* C5 as stated: for every successful enrichment, confidence = min(100,    *)
(* 20 * number of distinct sources + 10 [employee count present] + 10      *)
(* [total funding present] + 5 [headquarters city present] + 5 [founding   *)
(* year present] + 10 [latest funding round present] + 5 [CEO name         *)
(* present]), within [0, 100].                                             *)
C5_ConfidenceOfPresentFields ==
  \A i \in Succeeded :
    LET r == ResultOf(i)
    IN /\ r.confidence = ConfidenceOfPresentFields(r.data)
       /\ r.confidence >= 0 /\ r.confidence <= 100

(* C6: the sources list, while it is built and in the record of every      *)
(* successful enrichment, names a component only if that component         *)
(* returned non-empty data in this enrichment.                             *)
C6_SourcesReturnedData ==
  \A i \in Tasks :
    /\ Entries(task[i].sources) \subseteq task[i].returned
    /\ i \in Succeeded => Entries(ResultOf(i).data.sources) \subseteq task[i].returned

\* a successful enrichment that names the website although the research site
\* failed and the job boards had nothing
C6_Witness ==
  \E i \in Succeeded :
    /\ "company_website" \in Entries(ResultOf(i).data.sources)
    /\ "crunchbase" \notin task[i].returned
    /\ "job_boards" \notin task[i].returned
    /\ "crunchbase" \notin Entries(ResultOf(i).data.sources)

(* C7: every social link of the final record (linkedinUrl, twitterUrl,     *)
(* githubUrl) is a URL verifyUrlExists accepted during this enrichment.    *)
C7_OnlyVerifiedLinks ==
  \A i \in Succeeded : ExposedLinks(ResultOf(i).data) \subseteq task[i].verified

(* C8: for an input without domain, company name and profile URL no HTTP   *)
(* request and no structuring call is issued, and the result is a failure. *)
C8_NoIdentifierRejected ==
  \A i \in Tasks :
    NoIdentifier(i) =>
      /\ ~task[i].http
      /\ task[i].aiCalls = 0
      /\ i \in Finished => ~ResultOf(i).success

(* C9: for an input with a domain, when no source returned data and the    *)
(* structuring call succeeded, enrichCompany returns success = true with   *)
(* sources = [] and a confidence that is the sum of the field bonuses      *)
(* alone, 0 when the record has none of the bonus fields.                  *)
C9_AllSourcesFail ==
  \A i \in Tasks :
    (/\ task[i].pc = "done"
     /\ TruthyStr(task[i].input.domain)
     /\ task[i].returned = {}
     /\ ~task[i].threw) =>
      /\ i \in Succeeded
      /\ ResultOf(i).data.sources = << >>
      /\ ResultOf(i).confidence = ConfidenceOfTruthyFields(ResultOf(i).data)
      /\ ResultOf(i).confidence <= 45
      /\ task[i].answer = MinimalObject => ResultOf(i).confidence = 0

\* every request of an enrichment with a domain failed, the structuring call
\* answered with the bonus fields, and the result is a success without sources
C9_Witness ==
  \E i \in Succeeded :
    /\ TruthyStr(task[i].input.domain)
    /\ task[i].http
    /\ task[i].returned = {}
    /\ ResultOf(i).data.sources = << >>
    /\ ResultOf(i).confidence = 45

\* what a direct call of estimateEngineeringCount worked with and returned
RawCount == MaxEngineerCount(hc.counts)
ReturnedTotal == hc.result.totalEmployees
ReturnedEngineers == hc.result.engineeringCount

\* floor(0.4 * t), exactly
FloorTwoFifths(t) == (4 * t) \div 10

FloorOfWeightedMean(estimates) ==
  WeightedSum(estimates) \div TotalWeight(estimates)
Values(estimates) == {estimates[k][1] : k \in 1..Len(estimates)}

(* C11: combineEstimates returns 0 for the empty list and                  *)
(* floor(sum(value * confidence) / sum(confidence)) for every non-empty    *)
(* list with positive confidences, so floor(v) for a single estimate and   *)
(* 83 for [{100, 0.8}, {50, 0.4}]; the result lies between the smallest    *)
(* and the largest input value.                                            *)
C11_FloorOfWeightedMean ==
  hc.pc = "combined" =>
    IF hc.estimates = << >> THEN hc.result = 0
    ELSE /\ hc.result = FloorOfWeightedMean(hc.estimates)
         /\ \E v \in Values(hc.estimates) : v <= hc.result
         /\ \E v \in Values(hc.estimates) : hc.result <= v
         /\ Len(hc.estimates) = 1 => hc.result = hc.estimates[1][1]
         /\ hc.estimates = << <<100, 8>>, <<50, 4>> >> => hc.result = 83

(* C12: when the profile page states the employee count as a range        *)
(* "a-b employees", the scraped total is the midpoint floor((a + b) / 2):  *)
(* 125 for "51-200 employees", 350 for "201-500 employees".                *)
C12_RangeMidpoint ==
  (hc.pc = "returned" /\ hc.page.status = 200 /\ hc.page.kind = "range") =>
    /\ ReturnedTotal = (hc.page.a + hc.page.b) \div 2
    /\ hc.page = RangePage(51, 200) => ReturnedTotal = 125
    /\ hc.page = RangePage(201, 500) => ReturnedTotal = 350

(* C13: headcount estimation runs for an input that carries only a domain: *)
(* an enrichment of such an input that reaches the structuring call has    *)
(* called estimateEngineeringCount (the step is not skipped for want of a  *)
(* company name).                                                          *)
C13_HeadcountForDomainOnly ==
  \A i \in Tasks :
    (/\ TruthyStr(task[i].input.domain)
     /\ ~TruthyStr(task[i].input.companyName)
     /\ task[i].aiCalls = 1) =>
      ~task[i].headcountData.isNull

\* the clamp was applied: a positive search count was replaced
ClampWasApplied == RawCount > 0 /\ ReturnedEngineers # RawCount

(* C14: the confidence estimateEngineeringCount returns is 'medium'        *)
(* exactly when the search-derived engineer count exceeds 10 and no clamp  *)
(* was applied, and 'low' in every other case; it is never 'high'.         *)
C14_ConfidenceTier ==
  hc.pc = "returned" =>
    /\ hc.result.confidence \in {"medium", "low"}
    /\ hc.result.confidence = "medium" <=> (RawCount > 10 /\ ~ClampWasApplied)

\* a count above 10 that needed no clamp is rated medium
C14_Witness ==
  /\ hc.pc = "returned"
  /\ RawCount = 250
  /\ ReturnedTotal = 500
  /\ hc.result.confidence = "medium"

\* floor(0.35 * t), exactly
FloorSevenTwentieths(t) == (35 * t) \div 100

(* C15: when no keyword search yields a positive engineer count but the    *)
(* total employee count t is known, estimateEngineeringCount returns       *)
(* engineeringCount = floor(0.35 * t) with confidence 'low' (122 for t =   *)
(* 350); when neither a search count nor a total is known, engineeringCount *)
(* is absent.                                                              *)
C15_FallbackShare ==
  (hc.pc = "returned" /\ RawCount = 0) =>
    IF ReturnedTotal # undefined
    THEN /\ ReturnedEngineers = FloorSevenTwentieths(ReturnedTotal)
         /\ hc.result.confidence = "low"
         /\ ReturnedTotal = 350 => ReturnedEngineers = 122
    ELSE ReturnedEngineers = undefined

\* the estimates whose source has data in enrichment t: the LinkedIn-style
\* estimate, 5 per open engineering role, contributors / 0.7
TierWeight(confidence) ==
  IF confidence = "high" THEN 8 ELSE IF confidence = "medium" THEN 5 ELSE 3
ContributingEstimates(t) ==
  (IF ~t.linkedinEstimate.isNull /\ TruthyNum(t.linkedinEstimate.engineeringCount)
   THEN << <<t.linkedinEstimate.engineeringCount,
             TierWeight(t.linkedinEstimate.confidence)>> >>
   ELSE << >>)
  \o (IF t.hiringData.departmentHiring.engineering > 0
      THEN << <<5 * t.hiringData.departmentHiring.engineering, 4>> >>
      ELSE << >>)
  \o (IF t.githubData.contributorsLast30Days > 0
      THEN << <<(10 * t.githubData.contributorsLast30Days) \div 7, 5>> >>
      ELSE << >>)

(* C16: when both job data and code-host data are present for an           *)
(* enrichment, the engineeringCount of the record is the                   *)
(* confidence-weighted combination of the estimates whose source has data: *)
(* the LinkedIn-style estimate, the job-posting estimate (5 per open       *)
(* engineering role) and the code-host estimate (contributors / 0.7).      *)
C16_FusedEstimate ==
  \A i \in Succeeded :
    (~task[i].hiringData.isNull /\ ~task[i].githubData.isNull
     /\ ContributingEstimates(task[i]) # << >>) =>
      ResultOf(i).data.engineeringCount =
        FloorOfWeightedMean(ContributingEstimates(task[i]))

\* the keywords of each bucket, the buckets in their priority order
DepartmentKeywords ==
  <<<<"engineering",
      {<<"e", "n", "g", "i", "n", "e", "e", "r">>,
       <<"t", "e", "c", "h", "n", "i", "c", "a", "l">>,
       <<"d", "e", "v", "e", "l", "o", "p", "e", "r">>}>>,
    <<"sales",
      {<<"s", "a", "l", "e", "s">>,
       <<"a", "c", "c", "o", "u", "n", "t">>}>>,
    <<"marketing",
      {<<"m", "a", "r", "k", "e", "t", "i", "n", "g">>,
       <<"g", "r", "o", "w", "t", "h">>}>>,
    <<"customerSuccess",
      {<<"c", "u", "s", "t", "o", "m", "e", "r">>,
       <<"s", "u", "p", "p", "o", "r", "t">>,
       <<"s", "u", "c", "c", "e", "s", "s">>}>>,
    <<"operations",
      {<<"o", "p", "e", "r", "a", "t", "i", "o", "n", "s">>,
       <<"o", "p", "s">>,
       <<"f", "i", "n", "a", "n", "c", "e">>}>>>>

\* the earliest bucket one of whose keywords occurs in the department string,
\* whatever its case
FirstMatch(department) ==
  LET matching ==
        {p \in DOMAIN DepartmentKeywords :
           \E keyword \in DepartmentKeywords[p][2] :
             includes(toLowerCase(department), keyword)}
  IN IF matching = {} THEN "other"
     ELSE DepartmentKeywords[CHOOSE p \in matching : \A q \in matching : p <= q][1]

SeniorSoftwareEngineer == <<"S", "e", "n", "i", "o", "r", " ", "S", "o", "f", "t", "w", "a", "r", "e", " ", "E", "n", "g", "i", "n", "e", "e", "r">>
EnterpriseAccountExecutive == <<"E", "n", "t", "e", "r", "p", "r", "i", "s", "e", " ", "A", "c", "c", "o", "u", "n", "t", " ", "E", "x", "e", "c", "u", "t", "i", "v", "e">>
SalesEngineer == <<"S", "a", "l", "e", "s", " ", "E", "n", "g", "i", "n", "e", "e", "r">>
Design == <<"D", "e", "s", "i", "g", "n">>

\* every posting of the list has this department
AllOfDepartment(jobs, department) ==
  jobs # << >> /\ \A k \in DOMAIN jobs : jobs[k].department = department

(* C17: scrapeJobs counts each posting in exactly one bucket, the earliest *)
(* in the order engineering, sales, marketing, customerSuccess,            *)
(* operations one of whose keywords is a substring of the department       *)
(* string whatever its case, and other if none is: "Senior Software        *)
(* Engineer" counts as engineering, "Enterprise Account Executive" as      *)
(* sales, "Design" as other and "Sales Engineer" as engineering.           *)
C17_DepartmentClassification ==
  scraper.pc = "returned" =>
    LET jobs == scraper.jobListings
        counted == scraper.result.departmentHiring
    IN /\ \A d \in Departments :
            counted[d] = Cardinality({k \in DOMAIN jobs :
                                        FirstMatch(jobs[k].department) = d})
       /\ counted.engineering + counted.sales + counted.marketing
            + counted.customerSuccess + counted.operations + counted.other
            = Len(jobs)
       /\ AllOfDepartment(jobs, SeniorSoftwareEngineer)
            => counted.engineering = Len(jobs)
       /\ AllOfDepartment(jobs, EnterpriseAccountExecutive)
            => counted.sales = Len(jobs)
       /\ AllOfDepartment(jobs, Design) => counted.other = Len(jobs)
       /\ AllOfDepartment(jobs, SalesEngineer)
            => counted.engineering = Len(jobs)

\* "Sales Engineer" was counted as engineering next to an "Enterprise
\* Account Executive" counted as sales
C17_Witness ==
  /\ scraper.pc = "returned"
  /\ Len(scraper.jobListings) = 2
  /\ {scraper.jobListings[k].department : k \in 1..2}
       = {SalesEngineer, EnterpriseAccountExecutive}
  /\ scraper.result.departmentHiring.engineering = 1
  /\ scraper.result.departmentHiring.sales = 1

\* the pass of detectMobileApps a detection method belongs to
PassOf(detectionMethod) ==
  CASE detectionMethod \in {"App Store URL", "iTunes URL"} -> 1
    [] detectionMethod = "Google Play URL" -> 2
    [] detectionMethod \in {"iOS Smart Banner", "iOS App Links Meta",
                            "Android App Links Meta", "Google Play Meta Tag"} -> 3
    [] detectionMethod \in {"Universal Links", "Android Intent URL"} -> 4

\* the platform of an app with its appId, or with its appUrl if it has none
PlatformAndIdOrUrl(app) ==
  <<app.platform, IF app.appId = "undefined" THEN app.appUrl ELSE <<app.appId>> >>

(* C18: detectMobileApps returns at most one entry per (platform,          *)
(* appId-or-appUrl): every app a pass found is represented in allApps by   *)
(* exactly one entry, one of the earliest pass that found it; iosApps and  *)
(* androidApps partition allApps, and hasIosApp / hasAndroidApp tell       *)
(* whether the respective bucket is non-empty.                             *)
C18_OneEntryPerApp ==
  detector.pc = "returned" =>
    LET r == detector.result
        found == Range(r.apps)
    IN /\ \A j, k \in DOMAIN r.allApps :
            PlatformAndIdOrUrl(r.allApps[j]) = PlatformAndIdOrUrl(r.allApps[k]) => j = k
       /\ Range(r.allApps) \subseteq found
       /\ \A a \in found :
            \E b \in Range(r.allApps) :
              /\ PlatformAndIdOrUrl(b) = PlatformAndIdOrUrl(a)
              /\ PassOf(b.detectionMethod) <= PassOf(a.detectionMethod)
       /\ Range(r.iosApps) \cup Range(r.androidApps) = Range(r.allApps)
       /\ Len(r.iosApps) + Len(r.androidApps) = Len(r.allApps)
       /\ \A a \in Range(r.iosApps) : a.platform = "ios"
       /\ \A a \in Range(r.androidApps) : a.platform = "android"
       /\ r.hasIosApp <=> r.iosApps # << >>
       /\ r.hasAndroidApp <=> r.androidApps # << >>

\* the app with id 123 was found through a store URL and through a smart
\* banner, and allApps holds the entry of the store URL only
C18_Witness ==
  /\ detector.pc = "returned"
  /\ \E j, k \in DOMAIN detector.result.apps :
       /\ detector.result.apps[j].appId = "123"
       /\ detector.result.apps[j].detectionMethod = "App Store URL"
       /\ detector.result.apps[k].appId = "123"
       /\ detector.result.apps[k].detectionMethod = "iOS Smart Banner"
  /\ Len(detector.result.allApps) = 1
  /\ detector.result.allApps[1].detectionMethod = "App Store URL"
  /\ detector.result.hasIosApp /\ ~detector.result.hasAndroidApp

\* the position of a skill in the catalog
CatalogIndex(skill) == CHOOSE s \in DOMAIN techSkills : techSkills[s] = skill

\* the number of postings that mention a skill
Mentions(jobs, skill) ==
  Cardinality({k \in DOMAIN jobs : CatalogIndex(skill) \in MentionedIn(jobs[k])})

(* C19: extractTopSkills returns at most 10 skills, a skill mentioned by   *)
(* more postings before one mentioned by fewer, and of two skills          *)
(* mentioned by equally many postings the one that comes first in the      *)
(* catalog first, whatever the order of the postings.                      *)
C19_TopSkillsOrder ==
  scraper.pc = "returned" =>
    LET jobs == scraper.jobListings
        top == scraper.result.topSkillsHiring
    IN /\ Len(top) <= TopSkillsLimit
       /\ \A j, k \in DOMAIN top :
            j < k =>
              \/ Mentions(jobs, top[j]) > Mentions(jobs, top[k])
              \/ /\ Mentions(jobs, top[j]) = Mentions(jobs, top[k])
                 /\ CatalogIndex(top[j]) < CatalogIndex(top[k])

(* C20: the Electron main process creates a BrowserWindow only after the   *)
(* spawned server was observed ready; and if the wait for the server timed *)
(* out, no window was ever created, the app has quit and the server        *)
(* process was sent SIGTERM.                                               *)
C20_WindowAfterReady ==
  /\ electron.created > 0 => electron.ready /\ ~electron.createdBeforeReady
  /\ electron.timedOut =>
       /\ electron.created = 0
       /\ electron.pc = "quit"
       /\ "SIGTERM" \in electron.signals

(* C21: there is no retry in an enrichment: no component requests a URL   *)
(* a second time after its request failed or returned no data; the          *)
(* candidates of domain resolution and the organisation handles of the      *)
(* code-host lookup never repeat a URL.                                     *)
C21_NoRepeatedRequest ==
  \A i \in Tasks : task[i].repeated = {}

\* what a probe contributes: nothing if it failed
Contribution(probe) == IF probe.failed THEN << >> ELSE probe.value

(* C22: scrapeJobs starts its four probes before it awaits any of them and *)
(* returns only after all four have settled; a probe that failed has no    *)
(* postings and does not keep back those of the others: jobListings is the *)
(* concatenation of the postings of the probes in probe order, duplicates  *)
(* included, and openPositions is its length.                              *)
C22_FanOutFanIn ==
  /\ scraper.pc = "probing" => DOMAIN scraper.probes = Probes
  /\ scraper.pc = "returned" =>
       /\ \A p \in Probes : scraper.probes[p].status = "fulfilled"
       /\ \A p \in Probes : scraper.probes[p].failed => scraper.probes[p].value = << >>
       /\ scraper.result.jobListings =
            Contribution(scraper.probes[1]) \o Contribution(scraper.probes[2])
            \o Contribution(scraper.probes[3]) \o Contribution(scraper.probes[4])
       /\ scraper.result.openPositions = Len(scraper.result.jobListings)

\* the Ashby probe failed, and the Greenhouse and the Lever probe found the
\* same posting, which is returned twice
C22_Witness ==
  /\ scraper.pc = "returned"
  /\ scraper.probes[3].failed
  /\ scraper.probes[1].value # << >>
  /\ scraper.probes[1].value = scraper.probes[2].value
  /\ scraper.result.openPositions = 2
  /\ scraper.result.jobListings[1] = scraper.result.jobListings[2]

\* the structuring call of a finished findDomainFromName proposed a domain
Proposed ==
  prober.pc = "resolved" /\ ~prober.ai.throws /\ TruthyStr(prober.ai.domain)

(* C23: the proposed domain is accepted if its HEAD probe succeeds;        *)
(* otherwise, also when HEAD answers 403 or 405, a GET probe of the domain *)
(* is made, and the domain is accepted if GET succeeds or answers 403.     *)
C23_GetFallback ==
  Proposed =>
    IF prober.head # 0 /\ Ok(prober.head)
    THEN prober.result = prober.ai.domain
    ELSE /\ \E k \in DOMAIN prober.requests :
              prober.requests[k] = <<"GET", prober.ai.domain>>
         /\ (prober.get # 0 /\ (Ok(prober.get) \/ prober.get = 403))
              => prober.result = prober.ai.domain

\* the proposed domain of a finished findDomainFromName was not confirmed:
\* the call failed, proposed nothing, or neither probe of the domain passed
Unconfirmed ==
  /\ prober.pc = "resolved"
  /\ \/ prober.ai.throws
     \/ ~TruthyStr(prober.ai.domain)
     \/ /\ ~(prober.head # 0 /\ Ok(prober.head))
        /\ ~(prober.get # 0 /\ (Ok(prober.get) \/ prober.get = 403))

\* the patterns whose probe succeeds
Answering == {k \in 1..5 : prober.patterns[k] # 0 /\ Ok(prober.patterns[k])}

\* the patterns that were probed, in the order of the requests
PatternsProbed ==
  LET own == SelectSeq(prober.requests,
                       LAMBDA r : ~(Proposed /\ r[2] = prober.ai.domain /\ r[1] = "GET"))
  IN [k \in DOMAIN own |-> own[k][2]]

(* C24: when the proposed domain cannot be confirmed, findDomainFromName   *)
(* probes name.com, name.io, name.ai, name.app and the hyphenated name.com *)
(* in that order, returns the first whose probe succeeds without probing   *)
(* a later one, and returns no domain if none succeeds.                    *)
C24_PatternFallback ==
  Unconfirmed =>
    LET patterns == <<"acme.com", "acme.io", "acme.ai", "acme.app", "acme.com">>
        first == CHOOSE k \in Answering : \A j \in Answering : k <= j
        tried == IF Answering = {} THEN 5 ELSE first
        probed == PatternsProbed
    IN /\ prober.result = IF Answering = {} THEN "undefined" ELSE patterns[first]
       /\ Len(probed) >= tried
       /\ SubSeq(probed, Len(probed) - tried + 1, Len(probed)) = SubSeq(patterns, 1, tried)

(* C25: verifyUrlExists accepts a link exactly when HEAD succeeds or      *)
(* answers 999, or HEAD answers 405 or 403 and the GET that follows         *)
(* succeeds; any other status and any error or timeout of either request    *)
(* rejects it, and GET is issued only after a HEAD answered 405 or 403.     *)
C25_VerifyUrlExists ==
  prober.pc = "verified" =>
    LET headAnswered == prober.head # 0
        getAnswered == prober.get # 0
        blocked == headAnswered /\ prober.head \in {405, 403}
    IN /\ prober.result <=>
            \/ headAnswered /\ prober.head \in (200..299) \cup {999}
            \/ blocked /\ getAnswered /\ prober.get \in 200..299
       /\ prober.getIssued <=> blocked

\* a link whose HEAD was answered 403 was accepted on a successful GET
C25_Witness ==
  /\ prober.pc = "verified"
  /\ prober.head = 403
  /\ prober.getIssued
  /\ prober.get = 200
  /\ prober.result

\* the repositories, by their position in the list, whose languages are to
\* be reported: among the first 20, those not archived whose lookup succeeded
Reported ==
  {k \in 1..Min(Len(fetcher.repos), 20) :
     /\ ~fetcher.repos[k].archived
     /\ fetcher.repos[k].lookup.status \in 200..299}

\* the bytes of a language in the repositories of a set
RECURSIVE BytesIn(_, _)
BytesIn(ks, lang) ==
  IF ks = {} THEN 0
  ELSE LET k == CHOOSE k \in ks : TRUE
           body == fetcher.repos[k].lookup.body
       IN (IF lang \in DOMAIN body THEN body[lang].n ELSE 0)
          + BytesIn(ks \ {k}, lang)

(* C26: fetchOrgData returns the repositories in the order of the list,    *)
(* without those whose language lookup threw or was answered a non-success *)
(* status, which add nothing to the bytes per language; no lookup is       *)
(* repeated; no archived repository and at most 20 repositories are        *)
(* returned.                                                               *)
C26_FailedLookupOmitted ==
  (fetcher.pc = "returned" /\ ~fetcher.isNull) =>
    /\ Range(fetcher.repositories) = Reported
    /\ \A j, k \in DOMAIN fetcher.repositories :
         j < k => fetcher.repositories[j] < fetcher.repositories[k]
    /\ DOMAIN fetcher.languageBytes =
         UNION {DOMAIN fetcher.repos[k].lookup.body : k \in Reported}
    /\ \A lang \in DOMAIN fetcher.languageBytes :
         fetcher.languageBytes[lang] = Num(BytesIn(Reported, lang))
    /\ \A j, k \in DOMAIN fetcher.requested :
         fetcher.requested[j] = fetcher.requested[k] => j = k
    /\ \A k \in Range(fetcher.repositories) : ~fetcher.repos[k].archived
    /\ Len(fetcher.repositories) <= 20

(* C27: whenever job scraping found a posting, the top skills of the       *)
(* record come from the technology-catalog classification of the job texts *)
(* (detectFromJobPostings), whether or not the website HTML was fetched    *)
(* and the technographic detector ran.                                     *)
C27_TopSkillsFromCatalog ==
  \A i \in Succeeded :
    LET hiring == ResultOf(i).data.hiring
    IN (~hiring.isNull /\ hiring.openPositions > 0) =>
         hiring.topSkillsHiring = "detectFromJobPostings"

(* C28: in the assembled record a scraped value replaces the value the    *)
(* structuring call proposed only where a scraped value exists:            *)
(* employeeCount is the scraped total when one was found and the proposed  *)
(* figure otherwise, openPositions is the number of scraped postings when  *)
(* there are any and the proposed figure otherwise; hiring.jobListings     *)
(* keeps at most 10 postings and hiring.openPositions the full count.      *)
C28_ScrapedOverProposed ==
  \A i \in Succeeded :
    LET data == ResultOf(i).data
        object == task[i].answer
        headcountData == task[i].headcountData
        hiringData == task[i].hiringData
    IN /\ data.employeeCount =
            IF ~headcountData.isNull /\ TruthyNum(headcountData.totalEmployees)
            THEN headcountData.totalEmployees ELSE object.employeeCount
       /\ data.openPositions =
            IF ~hiringData.isNull /\ hiringData.jobListings > 0
            THEN hiringData.jobListings ELSE object.openPositions
       /\ ~hiringData.isNull =>
            /\ data.hiring.jobListings = Min(hiringData.jobListings, 10)
            /\ data.hiring.openPositions = hiringData.jobListings

\* the source steps the input and the data of task i call for
CalledFor(i) ==
  {Steps[k] : k \in {k \in 1..(Len(Steps) - 1) : Awaits(task[i], k)}}

(* C29: within one enrichment extractWithAI is invoked at most once (also  *)
(* after it failed), and only when every source step the enrichment calls  *)
(* for has completed; the sources list of the record is the list the       *)
(* confidence is computed from.                                            *)
C29_StructuringCallOnceAtTheEnd ==
  \A i \in Tasks :
    /\ task[i].aiCalls <= 1
    /\ task[i].aiCalls = 1 =>
         /\ task[i].pc = "done"
         /\ CalledFor(i) \subseteq task[i].awaited
    /\ i \in Succeeded =>
         /\ task[i].aiCalls = 1
         /\ ResultOf(i).data.sources = task[i].sources
         /\ ResultOf(i).confidence =
              calculateConfidence(ResultOf(i).data, ResultOf(i).data.sources)

\* a successful enrichment whose structuring call followed the website, the
\* research site, the code host, the job boards, both detectors, the link
\* verification and the headcount step
C29_Witness ==
  \E i \in Succeeded :
    /\ task[i].aiCalls = 1
    /\ {"fetchWebsite", "searchCrunchbase", "fetchOrgData", "scrapeJobs",
        "detectTechStack", "detectMobileApps", "extractSocialLinks",
        "estimateEngineeringCount"} \subseteq task[i].awaited
    /\ Len(ResultOf(i).data.sources) >= 2

(* C30: in every successful enrichment whose record has a scraped total   *)
(* employee count and an engineeringCount, engineeringCount is at most     *)
(* employeeCount, also when the engineeringCount is the fused estimate.    *)
C30_EngineersWithinTotal ==
  \A i \in Succeeded :
    LET data == ResultOf(i).data
        headcountData == task[i].headcountData
    IN (/\ ~headcountData.isNull
        /\ TruthyNum(headcountData.totalEmployees)
        /\ data.engineeringCount # undefined) =>
         data.engineeringCount <= data.employeeCount

=============================================================================
